---- MODULE Spec2Model ----
(***************************************************************************)
(* Model of the ComfyUI / Flux automation scripts: the workflow-graph      *)
(* builders, the job submitters, the completion pollers, the batch loops   *)
(* and the prompt enhancers.                                               *)
(*                                                                         *)
(* Three machines share the module, each with its own specification:       *)
(*   SpecGraph  a builder is called with arguments drawn from small sets   *)
(*   SpecRun    one run of a script against the ComfyUI server             *)
(*   SpecEnh    one call of a prompt enhancer                              *)
(***************************************************************************)
EXTENDS Integers, Sequences, FiniteSets, TLC

VARIABLES
    gBuilder,   \* SpecGraph: the builder that is called
    gArgs,      \* SpecGraph: its arguments, the clock and the random draw
    gPc,        \* SpecGraph: "call" before the call, "built" after it
    gOut,       \* SpecGraph: what the call produced: [raised, graph]
    eOpt,       \* SpecEnh: the optimizer class that is called
    eBase,      \* SpecEnh: base_prompt
    eTriggers,  \* SpecEnh: lora_triggers
    eEnv,       \* SpecEnh: what the text-generation server and the random generator did
    ePc,        \* SpecEnh: "call" before the call, "returned" after it
    eOut,       \* SpecEnh: what optimize_prompt returned
    script,     \* SpecRun: the script that runs
    count,      \* SpecRun: the number of prompts of the batch
    timeout,    \* SpecRun: the timeout wait_for_completion is called with, in seconds
    pc,         \* SpecRun: where the script is
    idx,        \* SpecRun: the 1-based index of the prompt in work
    probed,     \* SpecRun: the GET /system_stats answered 200
    posts,      \* SpecRun: the number of POST /prompt requests sent
    lastResp,   \* SpecRun: the server's answer to the last POST /prompt
    subResult,  \* SpecRun: what the submit step returned for it
    jobId,      \* SpecRun: prompt_id of the job polled
    elapsed,    \* SpecRun: time.time() - start_time of the poll loop, in seconds
    queries,    \* SpecRun: the number of GET /history requests of the poll loop
    firstFoundAt, \* SpecRun: the first query that was answered 200 with the job id, 0 if none
    lastNet,    \* SpecRun: "ok" or "neterr", the network outcome of the last history query
    pollResult, \* SpecRun: what wait_for_completion returned
    successful, \* SpecRun: successful (yoga), total_images (flux_lora)
    failed,     \* SpecRun: failed (yoga)
    results,    \* SpecRun: generated_ids / results: the list the batch returns
    genlog,     \* SpecRun: generation_log (yoga)
    outcomes,   \* SpecRun: how each prompt handled so far ended
    raisedBy,   \* SpecRun: the step an exception left the script from
    sScript,    \* SpecStart: the cloud-API script that starts
    sEnv,       \* SpecStart: the environment after load_dotenv: variable -> "absent", "empty", "set"
    sClients,   \* SpecStart: the API client packages can be imported
    sPc,        \* SpecStart: "start", "exited" (sys.exit(1)) or "running"
    sPrinted,   \* SpecStart: the credential names the printed messages hold
    sNet,       \* SpecStart: the number of network calls issued
    fN,         \* SpecFal: len(YOGA_POSES), the number of tasks
    fPermits,   \* SpecFal: the value of the semaphore
    fTask,      \* SpecFal: index -> [pc, status] of the task generate_single_image
    fMain,      \* SpecFal: "gather" while generate_all_images awaits, then "done"
    fResults,   \* SpecFal: valid_results, the records after the gather
    fSuccessful, \* SpecFal: len(successful)
    fFailed,    \* SpecFal: len(failed) + len(exceptions)
    fOutOfOrder, \* SpecFal: a task returned before a task of lower index
    hN,         \* SpecHf: len(YOGA_POSES)
    hPc,        \* SpecHf: "loop", "post", "append" or "done"
    hIdx,       \* SpecHf: i, the index of the pose being handled
    hAttempt,   \* SpecHf: attempt of generate_single_image_hf
    hPosts,     \* SpecHf: the POSTs issued for the pose being handled
    hResult,    \* SpecHf: the record generate_single_image_hf returned
    hResults,   \* SpecHf: results
    hSuccessful, \* SpecHf: successful
    hFailed,    \* SpecHf: failed
    xBase,      \* SpecExpand: base_prompt
    xEnv,       \* SpecExpand: the endpoints' answers, the random generator, the clock
    xPc,        \* SpecExpand: "call" or "returned"
    xOut,       \* SpecExpand: what expand_prompt returned
    rN,         \* SpecRetry: len(YOGA_POSES) of hf_yoga_generator.py
    rPc,        \* SpecRetry: "loop", "post", "append" or "done"
    rIdx,       \* SpecRetry: i, the index of the pose being handled
    rDepth,     \* SpecRetry: the nesting depth of generate_single_image_hf
    rPosts,     \* SpecRetry: the POSTs issued for the pose being handled
    rResult,    \* SpecRetry: the record generate_single_image_hf returned
    rResults,   \* SpecRetry: results
    cPoses,     \* SpecCloud: the "api" field of each entry of YOGA_POSES
    cPc,        \* SpecCloud: "dispatch", "gather", "sync", "report", "done" or "raised"
    cTasks,     \* SpecCloud: tasks, index -> "task" (asyncio.Task) or "future" (executor future)
    cResults,   \* SpecCloud: results
    cCompleted, \* SpecCloud: completed
    cFailed,    \* SpecCloud: failed
    cLogged,    \* SpecCloud: multi_api_generation_log.json has been written
    cRaised,    \* SpecCloud: the exception generate_all_images raised, or "none"
    pEnv,       \* SpecSmith: per URL of base_urls, what GET /health and the plain GET do
    pPc,        \* SpecSmith: "probe", "ready" (the constructor returned) or "returned"
    pIdx,       \* SpecSmith: the position in base_urls the loop is at
    pActive,    \* SpecSmith: active_url as a position in base_urls, 0 for None
    pGets,      \* SpecSmith: the GET requests find_active_endpoint issued
    pPosts,     \* SpecSmith: the POST requests enhance_prompt issued
    pOut,       \* SpecSmith: what enhance_prompt returned: "none" before the call, "None" or "body"
    tScript,    \* SpecStamp: "advanced_batch" or "batch_instagram"
    tN,         \* SpecStamp: len(base_prompts)
    tPc,        \* SpecStamp: "loop", "done" or "raised"
    tIdx,       \* SpecStamp: i of enumerate(base_prompts, 1)
    tClock,     \* SpecStamp: int(time.time()) at its last reading
    tBackwards, \* SpecStamp: the clock has gone backwards between two readings
    tItems,     \* SpecStamp: per prompt handled: timestamp, file names and filename prefix
    yN,         \* SpecRename: len(YOGA_POSES) of yoga_beach_generator_final.py
    yPc,        \* SpecRename: "job", "rename" or "done"
    yIdx,       \* SpecRename: i, the index of the pose being handled
    yNow,       \* SpecRename: time.time() in seconds since the batch started
    yFiles,     \* SpecRename: the yoga_beach_*.png files of the output directory
    yRenamed    \* SpecRename: the renames made so far: for which pose, of whose file

graphVars == <<gBuilder, gArgs, gPc, gOut>>
enhVars == <<eOpt, eBase, eTriggers, eEnv, ePc, eOut>>
pollVars == <<jobId, elapsed, queries, firstFoundAt, lastNet, pollResult>>
tallyVars == <<successful, failed, results, genlog, outcomes>>
startVars == <<sScript, sEnv, sClients, sPc, sPrinted, sNet>>
falVars == <<fN, fPermits, fTask, fMain, fResults, fSuccessful, fFailed, fOutOfOrder>>
hfVars == <<hN, hPc, hIdx, hAttempt, hPosts, hResult, hResults, hSuccessful, hFailed>>
expandVars == <<xBase, xEnv, xPc, xOut>>
retryVars == <<rN, rPc, rIdx, rDepth, rPosts, rResult, rResults>>
cloudVars == <<cPoses, cPc, cTasks, cResults, cCompleted, cFailed, cLogged, cRaised>>
smithVars == <<pEnv, pPc, pIdx, pActive, pGets, pPosts, pOut>>
stampVars == <<tScript, tN, tPc, tIdx, tClock, tBackwards, tItems>>
renameVars == <<yN, yPc, yIdx, yNow, yFiles, yRenamed>>
moreVars == <<retryVars, cloudVars, smithVars, stampVars, renameVars>>
apiVars == <<startVars, falVars, hfVars, expandVars, moreVars>>
runVars ==
    <<script, count, timeout, pc, idx, probed, posts, lastResp, subResult, raisedBy,
      pollVars, tallyVars>>
firstVars == <<graphVars, enhVars, runVars, startVars, falVars, hfVars, expandVars>>
notRetryVars == <<firstVars, cloudVars, smithVars, stampVars, renameVars>>
notRenameVars == <<firstVars, retryVars, cloudVars, smithVars, stampVars>>
notStampVars == <<firstVars, retryVars, cloudVars, smithVars, renameVars>>
notSmithVars == <<firstVars, retryVars, cloudVars, stampVars, renameVars>>
notCloudVars == <<firstVars, retryVars, smithVars, stampVars, renameVars>>

(***************************************************************************)
(* Bounds of the model.                                                    *)
(***************************************************************************)
MaxTriggers == 4
MaxRng == 6
MaxItems == 2
MaxTimeout == 6
MaxReqTime == 1
MaxQueries == 3
MaxNetCalls == 2
MaxPoses == 4
MaxHfPoses == 3
RecursionLimit == 4
MaxCloudPoses == 3
MaxUrls == 3
MaxStampItems == 3
MaxTick == 2
MaxStepBack == 1
MaxYogaPoses == 3

(***************************************************************************)
(* Workflow graphs.  A graph maps a node id to [class_type, inputs]; an    *)
(* input value is a literal or a reference [node_id, output_slot].         *)
(***************************************************************************)
R(n, s) == [kind |-> "ref", node |-> n, slot |-> s, str |-> "", num |-> 0]
S(t)    == [kind |-> "str", node |-> "", slot |-> 0, str |-> t, num |-> 0]
I(n)    == [kind |-> "int", node |-> "", slot |-> 0, str |-> "", num |-> n]
\* a float literal, held in tenths: F(75) is 7.5
F(t)    == [kind |-> "dec", node |-> "", slot |-> 0, str |-> "", num |-> t]

Node(c, ins) == [class_type |-> c, inputs |-> ins]

IsRef(v) == v.kind = "ref"

\* d1 updated with the entries of d2 (Python: d1[k] = v for each k of d2)
Merge(d1, d2) ==
    [k \in (DOMAIN d1) \cup (DOMAIN d2) |-> IF k \in DOMAIN d2 THEN d2[k] ELSE d1[k]]

\* workflow[n]["inputs"][k] = v
SetInput(g, n, k, v) ==
    [g EXCEPT ![n] = [@ EXCEPT !.inputs = Merge(@, (k :> v))]]

Built(g) == [raised |-> FALSE, graph |-> g]
BuildRaised == [raised |-> TRUE, graph |-> <<>>]

RECURSIVE Join(_)
\* ", ".join(s)
Join(s) ==
    IF Len(s) = 0 THEN ""
    ELSE IF Len(s) = 1 THEN s[1]
    ELSE s[1] \o ", " \o Join(Tail(s))

\* s[:n]
Take(s, n) == SubSeq(s, 1, IF Len(s) < n THEN Len(s) ELSE n)

NoSeed == -1

\* flux_lora_generator_fixed.create_flux_workflow(lora_name, seed, image_name)
flux_lora_create_flux_workflow(a) ==
    Built(
      ( "3" :> Node("KSampler",
                [seed |-> I(a.seed), steps |-> I(25), cfg |-> F(10),
                 sampler_name |-> S("euler"), scheduler |-> S("simple"),
                 denoise |-> I(1), model |-> R("12", 0), positive |-> R("6", 0),
                 negative |-> R("7", 0), latent_image |-> R("5", 0)]) )
      @@ ( "4" :> Node("UNETLoader",
                [unet_name |-> S("flux1-dev.safetensors"), weight_dtype |-> S("default")]) )
      @@ ( "5" :> Node("EmptyLatentImage",
                [width |-> I(1024), height |-> I(1024), batch_size |-> I(1)]) )
      @@ ( "6" :> Node("CLIPTextEncode",
                [text |-> S("beautiful late 20s woman, professional portrait, soft lighting, detailed facial features, elegant, photorealistic"),
                 clip |-> R("11", 0)]) )
      @@ ( "7" :> Node("CLIPTextEncode",
                [text |-> S("blurry, low quality, distorted, bad anatomy"),
                 clip |-> R("11", 0)]) )
      @@ ( "8" :> Node("VAEDecode", [samples |-> R("3", 0), vae |-> R("9", 0)]) )
      @@ ( "9" :> Node("VAELoader", [vae_name |-> S("ae.safetensors")]) )
      @@ ( "10" :> Node("SaveImage",
                [filename_prefix |-> S(a.prefix), images |-> R("8", 0)]) )
      @@ ( "11" :> Node("DualCLIPLoader",
                [clip_name1 |-> S("clip_l.safetensors"),
                 clip_name2 |-> S("umt5_xxl_fp8_e4m3fn_scaled.safetensors"),
                 type |-> S("flux")]) )
      @@ ( "12" :> Node("LoraLoader",
                [model |-> R("4", 0), clip |-> R("11", 0), lora_name |-> S(a.lora),
                 strength_model |-> F(8), strength_clip |-> F(8)]) ) )

\* configs/config.yaml as FluxHandler reads it: config["models"]["flux"][variant]
ConfigFlux == ("dev" :> "flux1-dev.safetensors") @@ ("schnell" :> "flux1-schnell.safetensors")
ConfigClipT5 == "t5xxl_fp16.safetensors"
ConfigClipL == "clip_l.safetensors"
ConfigVae == "ae.safetensors"

\* FluxHandler.create_flux_workflow: the graph before the LoRA branch
flux_handler_base(a, seed) ==
      ( "1" :> Node("EmptyLatentImage",
                [width |-> I(a.width), height |-> I(a.height), batch_size |-> I(1)]) )
      @@ ( "2" :> Node("CLIPTextEncode", [text |-> S(a.prompt), clip |-> R("11", 0)]) )
      @@ ( "3" :> Node("CLIPTextEncode", [text |-> S(a.negative), clip |-> R("11", 0)]) )
      @@ ( "4" :> Node("KSampler",
                [seed |-> I(seed), steps |-> I(a.steps), cfg |-> F(a.cfg),
                 sampler_name |-> S(a.sampler), scheduler |-> S("normal"),
                 denoise |-> F(10), model |-> R("10", 0), positive |-> R("2", 0),
                 negative |-> R("3", 0), latent_image |-> R("1", 0)]) )
      @@ ( "5" :> Node("VAEDecode", [samples |-> R("4", 0), vae |-> R("12", 0)]) )
      @@ ( "6" :> Node("SaveImage",
                [filename_prefix |-> S("flux_" \o a.variant \o "_" \o ToString(a.now)),
                 images |-> R("5", 0)]) )
      @@ ( "10" :> Node("UNETLoader", [unet_name |-> S(ConfigFlux[a.variant])]) )
      @@ ( "11" :> Node("DualCLIPLoader",
                [clip_name1 |-> S(ConfigClipT5), clip_name2 |-> S(ConfigClipL)]) )
      @@ ( "12" :> Node("VAELoader", [vae_name |-> S(ConfigVae)]) )

\* the LoRA branch with the LoraLoader node "13" left out: the rewiring alone
flux_handler_with_lora_no_node(g, a) ==
    SetInput(SetInput(SetInput(g, "4", "model", R("13", 0)), "2", "clip", R("13", 1)),
             "3", "clip", R("13", 1))

\* FluxHandler.create_flux_workflow: the LoRA branch
flux_handler_with_lora(g, a) ==
    LET g13 == g @@ ( "13" :> Node("LoraLoader",
                        [lora_name |-> S(a.lora), strength_model |-> F(a.strength),
                         strength_clip |-> F(a.strength), model |-> R("10", 0),
                         clip |-> R("11", 0)]) )
        g4 == SetInput(g13, "4", "model", R("13", 0))
        g2 == SetInput(g4, "2", "clip", R("13", 1))
    IN  SetInput(g2, "3", "clip", R("13", 1))

\* FluxHandler.create_flux_workflow(prompt, negative_prompt, ..., lora_path, lora_strength)
flux_handler_create_flux_workflow(a) ==
    LET seed == IF a.seed = NoSeed THEN a.now ELSE a.seed
    IN  IF a.variant \notin DOMAIN ConfigFlux THEN BuildRaised
        ELSE IF a.lora # "" THEN Built(flux_handler_with_lora(flux_handler_base(a, seed), a))
        ELSE Built(flux_handler_base(a, seed))

\* InstagramLoRAGenerator.lora_path
InstagramLoraPath == "flux_v2_lora_2144476.safetensors"

\* InstagramLoRAGenerator.create_flux_lora_workflow(prompt, seed, width, height)
instagram_lora_create_flux_lora_workflow(a) ==
    LET seed == IF a.seed = NoSeed THEN a.now % 1000000 ELSE a.seed
    IN Built(
      ( "4" :> Node("CheckpointLoaderSimple", [ckpt_name |-> S("flux1-dev-fp8.safetensors")]) )
      @@ ( "12" :> Node("LoraLoader",
                [lora_name |-> S(InstagramLoraPath), strength_model |-> F(8),
                 strength_clip |-> F(8), model |-> R("4", 0), clip |-> R("4", 1)]) )
      @@ ( "6" :> Node("CLIPTextEncode", [text |-> S(a.prompt), clip |-> R("12", 1)]) )
      @@ ( "7" :> Node("CLIPTextEncode",
                [text |-> S("blurry, low quality, distorted, amateur, bad lighting, pixelated, ugly, deformed, nsfw"),
                 clip |-> R("12", 1)]) )
      @@ ( "5" :> Node("EmptyLatentImage",
                [width |-> I(a.width), height |-> I(a.height), batch_size |-> I(1)]) )
      @@ ( "3" :> Node("KSampler",
                [seed |-> I(seed), steps |-> I(20), cfg |-> F(10),
                 sampler_name |-> S("euler"), scheduler |-> S("simple"),
                 denoise |-> I(1), model |-> R("12", 0), positive |-> R("6", 0),
                 negative |-> R("7", 0), latent_image |-> R("5", 0)]) )
      @@ ( "8" :> Node("VAEDecode", [samples |-> R("3", 0), vae |-> R("4", 2)]) )
      @@ ( "9" :> Node("SaveImage",
                [filename_prefix |-> S("instagram_model_" \o ToString(a.now)),
                 images |-> R("8", 0)]) ) )

\* InstagramGenerator.create_instagram_workflow(prompt, seed): the graph it returns
instagram_create_instagram_workflow(a) ==
    LET seed == IF a.seed = NoSeed THEN a.now % 1000000 ELSE a.seed
        timestamp == a.now
    IN Built(
      ( "1" :> Node("EmptyLatentImage",
                [width |-> I(1024), height |-> I(1024), batch_size |-> I(1)]) )
      @@ ( "2" :> Node("CLIPTextEncode",
                [text |-> S(a.prompt \o ", professional photography, instagram style, high quality, detailed, cinematic lighting, sharp focus"),
                 clip |-> R("11", 0)]) )
      @@ ( "3" :> Node("CLIPTextEncode",
                [text |-> S("blurry, low quality, distorted, amateur, bad lighting, pixelated, ugly, deformed"),
                 clip |-> R("11", 0)]) )
      @@ ( "4" :> Node("KSampler",
                [seed |-> I(seed), steps |-> I(25), cfg |-> F(75),
                 sampler_name |-> S("euler"), scheduler |-> S("normal"),
                 denoise |-> F(10), model |-> R("10", 0), positive |-> R("2", 0),
                 negative |-> R("3", 0), latent_image |-> R("1", 0)]) )
      @@ ( "5" :> Node("VAEDecode", [samples |-> R("4", 0), vae |-> R("12", 0)]) )
      @@ ( "6" :> Node("SaveImage",
                [filename_prefix |-> S("instagram_" \o ToString(timestamp)),
                 images |-> R("5", 0)]) )
      @@ ( "10" :> Node("UNETLoader", [unet_name |-> S("flux1-dev.safetensors")]) )
      @@ ( "11" :> Node("DualCLIPLoader",
                [clip_name1 |-> S("t5xxl_fp16.safetensors"),
                 clip_name2 |-> S("clip_l.safetensors")]) )
      @@ ( "12" :> Node("VAELoader", [vae_name |-> S("ae.safetensors")]) ) )

\* yoga_beach_generator_final.create_workflow(prompt, negative_prompt, seed)
yoga_create_workflow(a) ==
    LET seed == IF a.seed = NoSeed THEN a.rnd ELSE a.seed
    IN Built(
      ( "3" :> Node("KSampler",
                [seed |-> I(seed), steps |-> I(28), cfg |-> F(35),
                 sampler_name |-> S("euler"), scheduler |-> S("simple"),
                 denoise |-> F(10), model |-> R("4", 0), positive |-> R("6", 0),
                 negative |-> R("7", 0), latent_image |-> R("5", 0)]) )
      @@ ( "4" :> Node("CheckpointLoaderSimple", [ckpt_name |-> S("flux1-dev.sft")]) )
      @@ ( "5" :> Node("EmptyLatentImage",
                [width |-> I(1024), height |-> I(1024), batch_size |-> I(1)]) )
      @@ ( "6" :> Node("CLIPTextEncode", [text |-> S(a.prompt), clip |-> R("4", 1)]) )
      @@ ( "7" :> Node("CLIPTextEncode", [text |-> S(a.negative), clip |-> R("4", 1)]) )
      @@ ( "8" :> Node("VAEDecode", [samples |-> R("3", 0), vae |-> R("4", 2)]) )
      @@ ( "9" :> Node("SaveImage",
                [filename_prefix |-> S("yoga_beach_"), images |-> R("8", 0)]) ) )

\* the keys generate_batch and create_optimized_workflow read from the enhancer's result
DataKeys == {"optimized_prompt", "negative_prompt", "style_notes", "recommended_settings"}
SettingsKeys == {"steps", "cfg", "sampler"}

\* the dict an enhancer returns: its keys, the keys of its settings, and the values
Dict(has, shas, op, np, sn, steps, cfg, sampler) ==
    [has |-> has, shas |-> shas, optimized_prompt |-> op, negative_prompt |-> np,
     style_notes |-> sn, steps |-> steps, cfg |-> cfg, sampler |-> sampler]

\* AdvancedBatchGenerator.create_optimized_workflow(optimized_data, timestamp)
\* a.data: [has: the keys of optimized_data, shas: the keys of its settings, ...values]
advanced_batch_create_optimized_workflow(a) ==
    LET d == a.data
        timestamp == a.now
    IN  IF "recommended_settings" \notin d.has
           \/ ~({"optimized_prompt", "negative_prompt"} \subseteq d.has)
           \/ ~(SettingsKeys \subseteq d.shas)
        THEN BuildRaised
        ELSE Built(
      ( "1" :> Node("CLIPTextEncode", [text |-> S(d.optimized_prompt), clip |-> R("2", 0)]) )
      @@ ( "2" :> Node("DualCLIPLoader",
                [clip_name1 |-> S("umt5-xxl-enc-bf16.safetensors"),
                 clip_name2 |-> S("open-clip-xlm-roberta-large-vit-huge-14_visual_fp16.safetensors"),
                 type |-> S("flux")]) )
      @@ ( "3" :> Node("EmptyLatentImage",
                [width |-> I(1024), height |-> I(1024), batch_size |-> I(1)]) )
      @@ ( "4" :> Node("CLIPTextEncode", [text |-> S(d.negative_prompt), clip |-> R("2", 0)]) )
      @@ ( "5" :> Node("KSampler",
                [seed |-> I(timestamp % 1000000), steps |-> I(d.steps), cfg |-> F(d.cfg),
                 sampler_name |-> S(d.sampler), scheduler |-> S("normal"),
                 denoise |-> F(10), model |-> R("6", 0), positive |-> R("1", 0),
                 negative |-> R("4", 0), latent_image |-> R("3", 0)]) )
      @@ ( "6" :> Node("UNETLoader",
                [unet_name |-> S("Wan2_1-InfiniTetalk-Single_fp16.safetensors"),
                 weight_dtype |-> S("default")]) )
      @@ ( "7" :> Node("VAEDecode", [samples |-> R("5", 0), vae |-> R("8", 0)]) )
      @@ ( "8" :> Node("VAELoader", [vae_name |-> S("Wan2_1_VAE_bf16.safetensors")]) )
      @@ ( "9" :> Node("SaveImage",
                [filename_prefix |-> S("optimized_batch_" \o ToString(timestamp)),
                 images |-> R("7", 0)]) ) )

\* AdvancedInstagramGenerator.create_advanced_workflow: base_workflow before the branch
advanced_instagram_base(a) ==
    LET timestamp == a.now
        workflow_id == "adv_ig_" \o ToString(timestamp)
    IN
      ( "4" :> Node("EmptyLatentImage",
                [width |-> I(a.width), height |-> I(a.height), batch_size |-> I(1)]) )
      @@ ( "5" :> Node("KSampler",
                [seed |-> I(timestamp % 1000000), steps |-> I(a.steps), cfg |-> F(a.cfg),
                 sampler_name |-> S("euler"), scheduler |-> S("normal"),
                 denoise |-> F(10),
                 model |-> IF a.lora # "" THEN R("7", 0) ELSE R("7", 0),
                 positive |-> R("1", 0), negative |-> R("2", 0),
                 latent_image |-> R("4", 0)]) )
      @@ ( "6" :> Node("DualCLIPLoader",
                [clip_name1 |-> S("umt5-xxl-enc-bf16.safetensors"),
                 clip_name2 |-> S("open-clip-xlm-roberta-large-vit-huge-14_visual_fp16.safetensors"),
                 type |-> S("flux")]) )
      @@ ( "7" :> Node("UNETLoader",
                [unet_name |-> S("Wan2_1-InfiniTetalk-Single_fp16.safetensors"),
                 weight_dtype |-> S("default")]) )
      @@ ( "8" :> Node("VAEDecode", [samples |-> R("5", 0), vae |-> R("9", 0)]) )
      @@ ( "9" :> Node("VAELoader", [vae_name |-> S("Wan2_1_VAE_bf16.safetensors")]) )
      @@ ( "10" :> Node("SaveImage",
                [filename_prefix |-> S(workflow_id), images |-> R("8", 0)]) )

\* create_advanced_workflow: the branch taken when lora_file is given
advanced_instagram_with_lora(g, a, final_prompt) ==
    LET g3 == Merge(g, ( "3" :> Node("LoraLoader",
                        [lora_name |-> S(a.lora), strength_model |-> F(a.strength),
                         strength_clip |-> F(a.strength), model |-> R("7", 0),
                         clip |-> R("6", 0)]) ))
        g1 == Merge(g3, ( "1" :> Node("CLIPTextEncode",
                        [text |-> S(final_prompt), clip |-> R("3", 1)]) ))
        g2 == Merge(g1, ( "2" :> Node("CLIPTextEncode",
                        [text |-> S(a.negative), clip |-> R("3", 1)]) ))
    IN  SetInput(g2, "5", "model", R("3", 0))

\* the branch without a LoRA with both assignments made to key "1": no node "2"
advanced_instagram_without_lora_key_slip(g, a, final_prompt) ==
    LET g1 == Merge(g, ( "1" :> Node("CLIPTextEncode",
                        [text |-> S(final_prompt), clip |-> R("6", 0)]) ))
    IN  Merge(g1, ( "1" :> Node("CLIPTextEncode",
                        [text |-> S(a.negative), clip |-> R("6", 0)]) ))

\* create_advanced_workflow: the branch taken without a LoRA
advanced_instagram_without_lora(g, a, final_prompt) ==
    LET g1 == Merge(g, ( "1" :> Node("CLIPTextEncode",
                        [text |-> S(final_prompt), clip |-> R("6", 0)]) ))
    IN  Merge(g1, ( "2" :> Node("CLIPTextEncode",
                        [text |-> S(a.negative), clip |-> R("6", 0)]) ))

\* AdvancedInstagramGenerator.create_advanced_workflow(prompt, negative_prompt, lora_file, ...)
advanced_instagram_create_advanced_workflow(a) ==
    LET final_prompt ==
            IF a.lora # "" /\ Len(a.triggers) > 0
            THEN Join(Take(a.triggers, 3)) \o ", " \o a.prompt
            ELSE a.prompt
    IN  IF a.lora # ""
        THEN Built(advanced_instagram_with_lora(advanced_instagram_base(a), a, final_prompt))
        ELSE Built(advanced_instagram_without_lora(advanced_instagram_base(a), a, final_prompt))

\* batch_instagram_generator.create_working_workflow(prompt, timestamp)
batch_instagram_create_working_workflow(a) ==
    Built(
      ( "1" :> Node("CLIPTextEncode",
                [text |-> S(a.prompt \o ", professional photography, high quality, detailed"),
                 clip |-> R("2", 0)]) )
      @@ ( "2" :> Node("DualCLIPLoader",
                [clip_name1 |-> S("umt5-xxl-enc-bf16.safetensors"),
                 clip_name2 |-> S("open-clip-xlm-roberta-large-vit-huge-14_visual_fp16.safetensors"),
                 type |-> S("flux")]) )
      @@ ( "3" :> Node("SaveText",
                [filename_prefix |-> S("instagram_batch_" \o ToString(a.now)),
                 text |-> R("1", 0)]) ) )

\* simple_test.test_simple_workflow: the inline graph
simple_test_workflow ==
      ( "1" :> Node("CLIPTextEncode",
                [text |-> S("beautiful woman, professional photography"), clip |-> R("3", 0)]) )
      @@ ( "2" :> Node("CLIPTextEncode",
                [text |-> S("blurry, low quality"), clip |-> R("3", 0)]) )
      @@ ( "3" :> Node("DualCLIPLoader",
                [clip_name1 |-> S("umt5-xxl-enc-bf16.safetensors"),
                 clip_name2 |-> S("open-clip-xlm-roberta-large-vit-huge-14_visual_fp16.safetensors"),
                 type |-> S("flux")]) )

\* simple_test_minimal_fix.test_simple_workflow: the inline graph
simple_test_minimal_fix_workflow ==
      simple_test_workflow
      @@ ( "4" :> Node("EmptyLatentImage",
                [width |-> I(512), height |-> I(512), batch_size |-> I(1)]) )
      @@ ( "5" :> Node("VAELoader", [vae_name |-> S("Wan2_1_VAE_bf16.safetensors")]) )
      @@ ( "6" :> Node("VAEDecode", [samples |-> R("4", 0), vae |-> R("5", 0)]) )
      @@ ( "7" :> Node("SaveImage",
                [filename_prefix |-> S("test_output"), images |-> R("6", 0)]) )

\* the SamplerCustomAdvanced pipeline shared by simple_test_fixed and generate_images:
\* guidance "5", guider "6", noise "7", scheduler "8", sampler `smp`, selector `sel`
flux_custom_pipeline(pos, neg, seed, smp, sel, vae, prefix) ==
      ( "1" :> Node("CLIPTextEncode", [text |-> S(pos), clip |-> R("3", 0)]) )
      @@ ( "2" :> Node("CLIPTextEncode", [text |-> S(neg), clip |-> R("3", 0)]) )
      @@ ( "3" :> Node("DualCLIPLoader",
                [clip_name1 |-> S("umt5-xxl-enc-bf16.safetensors"),
                 clip_name2 |-> S("open-clip-xlm-roberta-large-vit-huge-14_visual_fp16.safetensors"),
                 type |-> S("flux")]) )
      @@ ( "4" :> Node("UNETLoader",
                [unet_name |-> S("flux1-dev.safetensors"), weight_dtype |-> S("default")]) )
      @@ ( "5" :> Node("FluxGuidance", [guidance |-> F(35), conditioning |-> R("1", 0)]) )
      @@ ( "6" :> Node("BasicGuider", [model |-> R("4", 0), conditioning |-> R("5", 0)]) )
      @@ ( "7" :> Node("RandomNoise", [noise_seed |-> I(seed)]) )
      @@ ( "8" :> Node("BasicScheduler",
                [model |-> R("4", 0), scheduler |-> S("simple"), steps |-> I(20),
                 denoise |-> F(10)]) )
      @@ ( smp :> Node("SamplerCustomAdvanced",
                [noise |-> R("7", 0), guider |-> R("6", 0), sampler |-> R(sel, 0),
                 sigmas |-> R("8", 0), latent_image |-> R("11", 0)]) )
      @@ ( sel :> Node("KSamplerSelect", [sampler_name |-> S("euler")]) )
      @@ ( "11" :> Node("EmptyLatentImage",
                [width |-> I(1024), height |-> I(1024), batch_size |-> I(1)]) )
      @@ ( "12" :> Node("VAELoader", [vae_name |-> S(vae)]) )
      @@ ( "13" :> Node("VAEDecode", [samples |-> R(smp, 0), vae |-> R("12", 0)]) )
      @@ ( "14" :> Node("SaveImage", [filename_prefix |-> S(prefix), images |-> R("13", 0)]) )

\* simple_test_fixed.test_complete_flux_workflow: the inline graph
simple_test_fixed_workflow ==
    flux_custom_pipeline("beautiful woman, professional photography", "blurry, low quality",
                         42, "9", "10", "ae.safetensors", "flux_test")

\* generate_images.generate_image(prompt, negative_prompt, filename_prefix): the inline graph
generate_images_workflow(a) ==
    flux_custom_pipeline(a.prompt, a.negative, a.now % 1000000, "10", "9",
                         "Wan2_1_VAE_bf16.safetensors", a.prefix)

\* Path(lora_file).stem for the LoRA files of the model
Stem(f) ==
    IF Len(f) > 12 /\ SubSeq(f, Len(f) - 11, Len(f)) = ".safetensors"
    THEN SubSeq(f, 1, Len(f) - 12)
    ELSE f

\* LoRAOptimizedGenerator.create_lora_workflow(prompt, lora_file, lora_strength, trigger_words)
lora_civitai_create_lora_workflow(a) ==
    LET enhanced_prompt ==
            IF Len(a.triggers) > 0
            THEN Join(Take(a.triggers, 3)) \o ", " \o a.prompt
            ELSE a.prompt
        timestamp == a.now
    IN Built(
      ( "1" :> Node("CLIPTextEncode", [text |-> S(enhanced_prompt), clip |-> R("3", 1)]) )
      @@ ( "2" :> Node("CLIPTextEncode",
                [text |-> S("blurry, low quality, distorted, amateur, bad anatomy, deformed"),
                 clip |-> R("3", 1)]) )
      @@ ( "3" :> Node("LoraLoader",
                [lora_name |-> S(a.lora), strength_model |-> F(a.strength),
                 strength_clip |-> F(a.strength), model |-> R("7", 0), clip |-> R("6", 0)]) )
      @@ ( "4" :> Node("EmptyLatentImage",
                [width |-> I(1024), height |-> I(1024), batch_size |-> I(1)]) )
      @@ ( "5" :> Node("KSampler",
                [seed |-> I(timestamp % 1000000), steps |-> I(28), cfg |-> F(70),
                 sampler_name |-> S("euler"), scheduler |-> S("normal"),
                 denoise |-> F(10), model |-> R("3", 0), positive |-> R("1", 0),
                 negative |-> R("2", 0), latent_image |-> R("4", 0)]) )
      @@ ( "6" :> Node("DualCLIPLoader",
                [clip_name1 |-> S("umt5-xxl-enc-bf16.safetensors"),
                 clip_name2 |-> S("open-clip-xlm-roberta-large-vit-huge-14_visual_fp16.safetensors"),
                 type |-> S("flux")]) )
      @@ ( "7" :> Node("UNETLoader",
                [unet_name |-> S("Wan2_1-InfiniTetalk-Single_fp16.safetensors"),
                 weight_dtype |-> S("default")]) )
      @@ ( "8" :> Node("VAEDecode", [samples |-> R("5", 0), vae |-> R("9", 0)]) )
      @@ ( "9" :> Node("VAELoader", [vae_name |-> S("Wan2_1_VAE_bf16.safetensors")]) )
      @@ ( "10" :> Node("SaveImage",
                [filename_prefix |-> S("lora_" \o Stem(a.lora) \o "_" \o ToString(timestamp)),
                 images |-> R("8", 0)]) ) )

\* scripts/comfy-cli.py generate_image(prompt, width, height): the inline graph
comfy_cli_workflow(a) ==
      ( "1" :> Node("EmptyLatentImage",
                [width |-> I(a.width), height |-> I(a.height), batch_size |-> I(1)]) )
      @@ ( "2" :> Node("CLIPTextEncode", [text |-> S(a.prompt), clip |-> R("11", 0)]) )
      @@ ( "3" :> Node("CLIPTextEncode",
                [text |-> S("blurry, low quality"), clip |-> R("11", 0)]) )
      @@ ( "4" :> Node("KSampler",
                [seed |-> I(a.now), steps |-> I(20), cfg |-> F(70),
                 sampler_name |-> S("euler"), scheduler |-> S("normal"),
                 denoise |-> F(10), model |-> R("10", 0), positive |-> R("2", 0),
                 negative |-> R("3", 0), latent_image |-> R("1", 0)]) )
      @@ ( "5" :> Node("VAEDecode", [samples |-> R("4", 0), vae |-> R("12", 0)]) )
      @@ ( "6" :> Node("SaveImage",
                [filename_prefix |-> S("instagram_" \o ToString(a.now)),
                 images |-> R("5", 0)]) )
      @@ ( "10" :> Node("UNETLoader", [unet_name |-> S("flux1-dev.safetensors")]) )
      @@ ( "11" :> Node("DualCLIPLoader",
                [clip_name1 |-> S("t5xxl_fp16.safetensors"),
                 clip_name2 |-> S("clip_l.safetensors")]) )
      @@ ( "12" :> Node("VAELoader", [vae_name |-> S("ae.safetensors")]) )

(***************************************************************************)
(* SpecGraph: one call of a builder.                                       *)
(***************************************************************************)
Builders ==
    {"flux_lora", "flux_handler", "instagram_lora", "instagram", "yoga",
     "advanced_batch", "advanced_instagram", "batch_instagram", "simple_test",
     "simple_test_minimal_fix", "simple_test_fixed", "generate_images",
     "lora_civitai", "comfy_cli"}

\* the graph each builder returns for the arguments a
BuildGraph(b, a) ==
    CASE b = "flux_lora" -> flux_lora_create_flux_workflow(a)
      [] b = "flux_handler" -> flux_handler_create_flux_workflow(a)
      [] b = "instagram_lora" -> instagram_lora_create_flux_lora_workflow(a)
      [] b = "instagram" -> instagram_create_instagram_workflow(a)
      [] b = "yoga" -> yoga_create_workflow(a)
      [] b = "advanced_batch" -> advanced_batch_create_optimized_workflow(a)
      [] b = "advanced_instagram" -> advanced_instagram_create_advanced_workflow(a)
      [] b = "batch_instagram" -> batch_instagram_create_working_workflow(a)
      [] b = "simple_test" -> Built(simple_test_workflow)
      [] b = "simple_test_minimal_fix" -> Built(simple_test_minimal_fix_workflow)
      [] b = "simple_test_fixed" -> Built(simple_test_fixed_workflow)
      [] b = "generate_images" -> Built(generate_images_workflow(a))
      [] b = "lora_civitai" -> lora_civitai_create_lora_workflow(a)
      [] b = "comfy_cli" -> Built(comfy_cli_workflow(a))

\* the builders that take a LoRA file name
LoraBuilders == {"flux_lora", "flux_handler", "advanced_instagram", "lora_civitai"}
\* the builders in which the LoRA file is optional
OptionalLoraBuilders == {"flux_handler", "advanced_instagram"}

TriggerWords == <<"instagram style", "portrait", "bokeh", "film grain", "35mm", "analog">>
TriggerLists == {SubSeq(TriggerWords, 1, n) : n \in 0..MaxTriggers}

\* the enhancer results create_optimized_workflow is given
FullData ==
    Dict(DataKeys, SettingsKeys, "woman portrait, sharp focus", "blurry",
         "added focus", 25, 75, "euler")
DataSets ==
    {FullData,
     [FullData EXCEPT !.sampler = "no_such_sampler"],
     [FullData EXCEPT !.shas = {"steps", "cfg"}],
     [FullData EXCEPT !.has = {"optimized_prompt", "negative_prompt"}]}

GraphArgs ==
    [prompt : {"red apple on a table", "woman portrait"},
     negative : {"blurry"},
     seed : {NoSeed, 42},
     now : {1700000000, 1700000001},
     rnd : {7},
     width : {1024}, height : {1024},
     steps : {20}, cfg : {70},
     sampler : {"euler", "no_such_sampler"},
     variant : {"dev", "no_such_variant"},
     lora : {"", "style.safetensors"},
     strength : {8},
     triggers : TriggerLists,
     prefix : {"flux_generated"},
     data : DataSets]

\* the arguments a builder reads; the others keep one value
ArgsOf(b) ==
    {a \in GraphArgs :
        /\ (b \notin LoraBuilders => a.lora = "")
        /\ (b \in LoraBuilders \ OptionalLoraBuilders => a.lora # "")
        /\ (b \notin {"advanced_instagram", "lora_civitai"} => a.triggers = <<>>)
        /\ (b # "flux_handler" => a.sampler = "euler" /\ a.variant = "dev")
        /\ (b # "advanced_batch" => a.data = FullData)
        /\ (b \in {"simple_test", "simple_test_minimal_fix", "simple_test_fixed"} =>
                a.prompt = "woman portrait" /\ a.seed = NoSeed /\ a.now = 1700000000)
        /\ (b = "flux_lora" => a.seed # NoSeed)}

GraphIdle ==
    /\ gBuilder = "none"
    /\ gArgs = <<>>
    /\ gPc = "idle"
    /\ gOut = BuildRaised

InitGraph ==
    /\ gBuilder \in Builders
    /\ gArgs \in ArgsOf(gBuilder)
    /\ gPc = "call"
    /\ gOut = BuildRaised

\* the builder is called and returns (or raises)
Build ==
    /\ gPc = "call"
    /\ gOut' = BuildGraph(gBuilder, gArgs)
    /\ gPc' = "built"
    /\ UNCHANGED <<gBuilder, gArgs>>
    /\ UNCHANGED <<enhVars, runVars, apiVars>>

(***************************************************************************)
(* The prompt enhancers.                                                   *)
(***************************************************************************)
\* the 1-based positions of the character c in s
Positions(s, c) == {i \in 1..Len(s) : SubSeq(s, i, i) = c}

\* s.find(c): the 0-based index of the first c, -1 when there is none
Find(s, c) ==
    IF Positions(s, c) = {} THEN 0 - 1
    ELSE (CHOOSE i \in Positions(s, c) : \A j \in Positions(s, c) : i <= j) - 1

\* s.rfind(c): the 0-based index of the last c, -1 when there is none
RFind(s, c) ==
    IF Positions(s, c) = {} THEN 0 - 1
    ELSE (CHOOSE i \in Positions(s, c) : \A j \in Positions(s, c) : i >= j) - 1

\* s[a:b] for 0 <= a
Slice(s, a, b) == SubSeq(s, a + 1, IF b > Len(s) THEN Len(s) ELSE b)

\* s.strip(): s between its first and its last character that is not a blank
Strip(s) ==
    LET inked == {i \in 1..Len(s) : SubSeq(s, i, i) # " "}
    IN  IF inked = {} THEN ""
        ELSE SubSeq(s, CHOOSE i \in inked : \A j \in inked : i <= j,
                       CHOOSE i \in inked : \A j \in inked : i >= j)

\* the texts the text-generation server answers with in the "response" field
TextPlain == "cinematic portrait of a woman, golden hour "
TextFull == "Here it is: {optimized_prompt: portrait, negative_prompt: blurry, style_notes: lighting, recommended_settings: {steps: 30, cfg: 7.0, sampler: dpmpp_2m}} Enjoy!"
TextOtherKeys == "{prompt: portrait of a woman}"
TextNoSampler == "{optimized_prompt: portrait, negative_prompt: blurry, style_notes: lighting, recommended_settings: {steps: 30}}"
TextBroken == "put {subject} in front, then {style"
TextReversed == "} portrait {"
TextLong == "ultra detailed portrait of a woman standing on a beach at golden hour, soft rim light, shallow depth of field, 85mm lens, film grain, natural skin texture, elegant composition, editorial fashion photography, award winning, masterpiece"
ResponseTexts ==
    {"", TextPlain, TextFull, TextOtherKeys, TextNoSampler, TextBroken, TextReversed, TextLong}

NoDict == Dict({}, {}, "", "", "", 0, 0, "")

\* json.loads(json_str) for the texts of the model: [ok, value]; ok is FALSE when
\* json.loads raises
JsonLoads(js) ==
    CASE js = "{optimized_prompt: portrait, negative_prompt: blurry, style_notes: lighting, recommended_settings: {steps: 30, cfg: 7.0, sampler: dpmpp_2m}}" ->
            [ok |-> TRUE,
             value |-> Dict(DataKeys, SettingsKeys, "portrait", "blurry", "lighting",
                            30, 70, "dpmpp_2m")]
      [] js = "{prompt: portrait of a woman}" ->
            [ok |-> TRUE, value |-> Dict({"prompt"}, {}, "", "", "", 0, 0, "")]
      [] js = "{optimized_prompt: portrait, negative_prompt: blurry, style_notes: lighting, recommended_settings: {steps: 30}}" ->
            [ok |-> TRUE,
             value |-> Dict(DataKeys, {"steps"}, "portrait", "blurry", "lighting", 30, 0, "")]
      [] OTHER -> [ok |-> FALSE, value |-> NoDict]

\* OllamaPromptOptimizer.parse_optimization_result(response)
parse_optimization_result(response) ==
    LET start == Find(response, "{")
        end == RFind(response, "}") + 1
        found == start >= 0 /\ end > start
    IN  IF found /\ JsonLoads(Slice(response, start, end)).ok
        THEN JsonLoads(Slice(response, start, end)).value
        ELSE Dict(DataKeys, SettingsKeys,
                  IF Len(response) > 200 THEN Slice(response, 0, 200) \o "..." ELSE response,
                  "blurry, low quality, distorted, amateur",
                  "AI-optimized prompt", 25, 75, "euler")

\* the keywords after base_prompt in fallback_optimization's f-string
BatchFallbackKeywords ==
    <<"professional photography", "high quality", "detailed", "sharp focus",
      "perfect lighting", "cinematic composition", "8k resolution", "masterpiece">>

BatchFallbackNegative ==
    "blurry, low quality, distorted, amateur, bad lighting, pixelated, ugly, deformed, watermark"

\* fallback_optimization with the keywords appended without the ", " separator
fallback_optimization_no_separator(base_prompt) ==
    Dict(DataKeys, SettingsKeys,
         base_prompt \o Join(BatchFallbackKeywords),
         BatchFallbackNegative,
         "Fallback enhancement with proven keywords", 25, 75, "euler")

\* OllamaPromptOptimizer.fallback_optimization(base_prompt)
fallback_optimization(base_prompt) ==
    Dict(DataKeys, SettingsKeys,
         base_prompt \o ", professional photography, high quality, detailed, sharp focus, perfect lighting, cinematic composition, 8k resolution, masterpiece",
         BatchFallbackNegative,
         "Fallback enhancement with proven keywords", 25, 75, "euler")

\* what one call of an enhancer returns: the path taken, the data, the keywords
\* the fallback drew, and the number of POSTs sent to /api/generate
EnhResult(path, data, sel, nposts) ==
    [path |-> path, data |-> data, sel |-> sel, posts |-> nposts]

\* OllamaPromptOptimizer.optimize_prompt(base_prompt): e is the server's answer
batch_optimize_prompt(base_prompt, e) ==
    IF e.net = "neterr" THEN
        EnhResult("fallback", fallback_optimization(base_prompt), <<>>, 1)
    ELSE IF e.status = 200 THEN
        IF e.body = "notjson"
        THEN EnhResult("fallback", fallback_optimization(base_prompt), <<>>, 1)
        ELSE EnhResult("remote", parse_optimization_result(e.text), <<>>, 1)
    ELSE EnhResult("fallback", fallback_optimization(base_prompt), <<>>, 1)

\* OllamaOptimizer._fallback_enhance: quality_words
QualityWords ==
    <<"high quality", "detailed", "professional", "photorealistic", "sharp focus",
      "beautiful lighting", "masterpiece", "8K resolution", "hyperdetailed",
      "award winning photography">>

\* OllamaOptimizer._fallback_enhance: instagram_style
InstagramStyle ==
    <<"instagram style", "social media ready", "aesthetic", "trendy",
      "modern photography", "lifestyle photo", "influencer style">>

InstagramFallbackNegative ==
    "blurry, low quality, distorted, amateur, bad anatomy, deformed, ugly, pixelated, watermark, text, signature"

\* OllamaOptimizer._generate_negative_prompt()
generate_negative_prompt ==
    "blurry, low quality, distorted, amateur, bad anatomy, deformed, ugly, pixelated, "
    \o "watermark, text, signature, oversaturated, noise, artifacts, jpeg artifacts, "
    \o "bad lighting, overexposed, underexposed, unrealistic, cartoonish"

\* the list without its p-th entry
RemoveAt(l, p) == SubSeq(l, 1, p - 1) \o SubSeq(l, p + 1, Len(l))

RECURSIVE SamplePositions(_, _, _)
\* random.sample: k positions of a list of n entries, without replacement, as the
\* state rng of the generator decides; positions refer to the entries not yet drawn
SamplePositions(n, k, rng) ==
    IF k = 0 \/ n = 0 THEN <<>>
    ELSE <<(rng % n) + 1>> \o SamplePositions(n - 1, k - 1, (rng * 7 + 3) % 101)

RECURSIVE DrawAt(_, _)
\* the entries of l at the positions ps, each drawn entry leaving the list
DrawAt(l, ps) ==
    IF Len(ps) = 0 THEN <<>>
    ELSE <<l[ps[1]]>> \o DrawAt(RemoveAt(l, ps[1]), Tail(ps))

\* random.sample(l, k) in the generator state rng
RandomSample(l, k, rng) == DrawAt(l, SamplePositions(Len(l), k, rng))

Min(a, b) == IF a < b THEN a ELSE b

\* the words _fallback_enhance draws from
EnhancementWords(lora_triggers) == QualityWords \o InstagramStyle \o Take(lora_triggers, 2)

\* OllamaOptimizer._fallback_enhance(prompt, lora_triggers), as a result of optimize_prompt
instagram_fallback_enhance(prompt, lora_triggers, rng, nposts) ==
    LET enhancement_words == EnhancementWords(lora_triggers)
        selected_enhancements ==
            RandomSample(enhancement_words, Min(5, Len(enhancement_words)), rng)
    IN  EnhResult("fallback",
                  Dict({"optimized_prompt", "negative_prompt"}, {},
                       prompt \o ", " \o Join(selected_enhancements),
                       InstagramFallbackNegative, "", 0, 0, ""),
                  selected_enhancements, nposts)

\* OllamaOptimizer.optimize_prompt(base_prompt, style, lora_triggers): the tuple
\* (optimized_prompt, negative_prompt) is held in the data's two prompt fields
instagram_optimize_prompt(base_prompt, lora_triggers, e) ==
    IF e.probe # "ok" THEN instagram_fallback_enhance(base_prompt, lora_triggers, e.rng, 0)
    ELSE IF e.net = "neterr" THEN
        instagram_fallback_enhance(base_prompt, lora_triggers, e.rng, 1)
    ELSE IF e.status = 200 THEN
        IF e.body = "notjson"
        THEN instagram_fallback_enhance(base_prompt, lora_triggers, e.rng, 1)
        ELSE EnhResult("remote",
                       Dict({"optimized_prompt", "negative_prompt"}, {},
                            Strip(e.text), generate_negative_prompt, "", 0, 0, ""),
                       <<>>, 1)
    ELSE instagram_fallback_enhance(base_prompt, lora_triggers, e.rng, 1)

\* the answers of the text-generation server and the state of the random generator:
\* probe is the GET /api/tags of is_available, the rest the POST /api/generate
EnhEnvs ==
    {e \in [probe : {"ok", "non200", "neterr"}, net : {"ok", "neterr"},
            status : {200, 500}, body : {"json", "notjson"},
            text : ResponseTexts, rng : 0..MaxRng] :
        /\ (e.probe # "ok" => e.net = "neterr")
        /\ (e.net = "neterr" => e.status = 500)
        /\ (e.status = 500 => e.body = "notjson")
        /\ (e.body = "notjson" => e.text = "")
        /\ (e.body = "json" => e.rng = 0)}

Optimizers == {"batch", "instagram"}

\* one call of optimize_prompt of the optimizer o
optimize_prompt(o, base_prompt, lora_triggers, e) ==
    IF o = "batch" THEN batch_optimize_prompt(base_prompt, e)
    ELSE instagram_optimize_prompt(base_prompt, lora_triggers, e)

BasePrompts == {"red apple on a table", "woman portrait"}

NoEnv == [probe |-> "ok", net |-> "ok", status |-> 200, body |-> "json", text |-> "", rng |-> 0]

EnhIdle ==
    /\ eOpt = "none"
    /\ eBase = ""
    /\ eTriggers = <<>>
    /\ eEnv = NoEnv
    /\ ePc = "idle"
    /\ eOut = EnhResult("none", NoDict, <<>>, 0)

InitEnh ==
    /\ eOpt \in Optimizers
    /\ eBase \in BasePrompts
    /\ eTriggers \in (IF eOpt = "instagram" THEN TriggerLists ELSE {<<>>})
    /\ eEnv = NoEnv
    /\ ePc = "call"
    /\ eOut = EnhResult("none", NoDict, <<>>, 0)

\* optimize_prompt is called and returns
Optimize ==
    /\ ePc = "call"
    /\ \E e \in EnhEnvs :
         /\ (eOpt = "batch" => e.probe = "ok")
         /\ eEnv' = e
         /\ eOut' = optimize_prompt(eOpt, eBase, eTriggers, e)
    /\ ePc' = "returned"
    /\ UNCHANGED <<eOpt, eBase, eTriggers>>
    /\ UNCHANGED <<graphVars, runVars, apiVars>>
(***************************************************************************)
(* One run of a script against the ComfyUI server: the probe, the batch    *)
(* loop, the submit step and the polling of the job.                       *)
(***************************************************************************)
Scripts ==
    {"flux_lora", "instagram_lora", "yoga", "advanced_batch", "batch_instagram",
     "advanced_instagram", "generate_images", "instagram", "flux_handler"}

\* the scripts that call a submit function: queue_workflow, queue_prompt
\* (InstagramLoRAGenerator, yoga, ComfyUIManager) or queue_generation
FunctionScripts == {"flux_lora", "instagram_lora", "yoga", "instagram", "flux_handler"}

\* the scripts that wait for the job with wait_for_completion
PollScripts == {"flux_lora", "instagram_lora", "yoga"}

\* the scripts whose wait_for_completion has a timeout
TimedScripts == {"instagram_lora", "yoga"}

\* the scripts that GET /system_stats before their first POST
ProbeScripts ==
    {"flux_lora", "instagram_lora", "yoga", "advanced_batch", "batch_instagram", "instagram"}

\* the scripts that submit one prompt and return
SingleScripts == {"instagram", "flux_handler"}

\* the scripts that enhance the prompt first
EnhanceScripts == {"advanced_batch", "advanced_instagram"}

JobIds == {"a1b2", "c3d4"}

\* prompt_id is None
NoId == ""

\* the answers to GET /system_stats: 200 with a JSON body, 200 with another body,
\* another status, no answer
ProbeResps == {"ok", "ok_notjson", "non200", "neterr"}

\* the probe of the script s lets it go on
ProbePasses(s, p) == p = "ok" \/ (p = "ok_notjson" /\ s # "yoga")

\* the answers to POST /prompt: no answer, a status, a body that is JSON or not,
\* the prompt_id of the JSON body (NoId when it has none)
PostResp(net, status, body, id) == [net |-> net, status |-> status, body |-> body, id |-> id]

NoResp == PostResp("none", 0, "none", NoId)

PostResps ==
    {PostResp("neterr", 0, "none", NoId),
     PostResp("ok", 500, "notjson", NoId),
     PostResp("ok", 400, "json", NoId),
     PostResp("ok", 200, "notjson", NoId),
     PostResp("ok", 200, "json", NoId)}
    \cup {PostResp("ok", 200, "json", id) : id \in JobIds}

\* what a submit step gives its caller: kind "id" with the prompt_id, "body" with
\* the whole response body (id is its prompt_id), "none" for None, "raised"
SubResult(kind, id) == [kind |-> kind, id |-> id]

\* flux_lora_generator_fixed.queue_workflow(workflow)
queue_workflow(r) ==
    IF r.net = "neterr" THEN SubResult("raised", NoId)
    ELSE IF r.status = 200 THEN
        IF r.body = "json" /\ r.id # NoId
        THEN SubResult("id", r.id)
        ELSE SubResult("raised", NoId)
    ELSE SubResult("none", NoId)

\* InstagramLoRAGenerator.queue_prompt(workflow)
lora_queue_prompt(r) ==
    IF r.net = "neterr" THEN SubResult("none", NoId)
    ELSE IF r.status = 200 THEN
        IF r.body = "json" /\ r.id # NoId
        THEN SubResult("id", r.id)
        ELSE SubResult("none", NoId)
    ELSE SubResult("none", NoId)

\* InstagramGenerator.queue_generation(workflow)
queue_generation(r) ==
    IF r.net = "neterr" THEN SubResult("none", NoId)
    ELSE IF r.status = 200 THEN
        IF r.body = "json" /\ r.id # NoId
        THEN SubResult("id", r.id)
        ELSE SubResult("none", NoId)
    ELSE SubResult("none", NoId)

\* ComfyUIManager.queue_prompt(workflow): p is the answer to is_running's probe
comfy_queue_prompt(p, r) ==
    IF ~ProbePasses("flux_handler", p) THEN SubResult("none", NoId)
    ELSE IF r.net = "neterr" THEN SubResult("none", NoId)
    ELSE IF r.status = 200 /\ r.body = "json" /\ r.id # NoId THEN SubResult("id", r.id)
    ELSE SubResult("none", NoId)

\* yoga_beach_generator_final.queue_prompt(workflow): the body of the response
yoga_queue_prompt(r) ==
    IF r.net = "neterr" THEN SubResult("none", NoId)
    ELSE IF r.status = 200 THEN
        IF r.body = "json" THEN SubResult("body", r.id) ELSE SubResult("none", NoId)
    ELSE SubResult("none", NoId)

\* generate_images.generate_image: the POST and what it returns
generate_image_post(r) ==
    IF r.net = "neterr" THEN SubResult("none", NoId)
    ELSE IF r.status = 200 THEN
        IF r.body = "json" THEN SubResult("body", r.id) ELSE SubResult("none", NoId)
    ELSE SubResult("none", NoId)

\* the POST inside the loops of advanced_batch_generator, batch_instagram_generator
\* and advanced_instagram_generator: on 200 the loop holds response.json().get("prompt_id")
inline_post(r) ==
    IF r.net = "neterr" THEN SubResult("none", NoId)
    ELSE IF r.status = 200 THEN
        IF r.body = "json" THEN SubResult("id", r.id) ELSE SubResult("none", NoId)
    ELSE SubResult("none", NoId)

\* a submit function that posts again after a network failure
posts_of_call_retrying(sent, r) ==
    IF sent THEN (IF r.net = "neterr" THEN 2 ELSE 1) ELSE 0

\* the requests.post calls one call of a submit function issues: one, or none
\* when ComfyUIManager.queue_prompt finds the server not running
posts_of_call(sent, r) == IF sent THEN 1 ELSE 0

\* the submit step of the script s
SubmitOf(s, p, r) ==
    CASE s = "flux_lora" -> queue_workflow(r)
      [] s = "instagram_lora" -> lora_queue_prompt(r)
      [] s = "yoga" -> yoga_queue_prompt(r)
      [] s = "instagram" -> queue_generation(r)
      [] s = "flux_handler" -> comfy_queue_prompt(p, r)
      [] s = "generate_images" -> generate_image_post(r)
      [] OTHER -> inline_post(r)

\* the answers to GET /history/<id>: keys are the job ids the JSON body holds
HistResp(net, status, body, keys) ==
    [net |-> net, status |-> status, body |-> body, keys |-> keys]

HistResps ==
    {HistResp("neterr", 0, "none", {}),
     HistResp("ok", 200, "notjson", {})}
    \cup {HistResp("ok", st, "json", ks) : st \in {200, 500}, ks \in SUBSET JobIds}

\* the answer h is a 200 whose JSON body holds the job id
HistHasJob(h, prompt_id) ==
    h.net = "ok" /\ h.status = 200 /\ h.body = "json" /\ prompt_id \in h.keys

\* one pass of the loop of flux_lora_generator_fixed.wait_for_completion
flux_poll_once(h, prompt_id) ==
    IF h.net = "neterr" THEN "not_found"
    ELSE IF h.status = 200 THEN
        IF h.body = "notjson" THEN "not_found"
        ELSE IF prompt_id \in h.keys THEN "found" ELSE "not_found"
    ELSE "not_found"

\* check_progress that takes any 200 for the finished job
check_progress_any_200(h, prompt_id) ==
    h.net = "ok" /\ h.status = 200

\* InstagramLoRAGenerator.check_progress(prompt_id)
check_progress(h, prompt_id) ==
    IF h.net = "neterr" THEN FALSE
    ELSE IF h.status = 200 THEN
        IF h.body = "notjson" THEN FALSE ELSE prompt_id \in h.keys
    ELSE FALSE

\* the loop body of yoga's wait_for_completion without its try/except
yoga_poll_once_unguarded(h, prompt_id) ==
    IF h.net = "neterr" \/ (h.status = 200 /\ h.body = "notjson") THEN "raised"
    ELSE IF h.status = 200 /\ prompt_id \in h.keys THEN "found"
    ELSE "not_found"

\* one pass of the loop of yoga_beach_generator_final.wait_for_completion
yoga_poll_once(h, prompt_id) ==
    IF h.net = "neterr" THEN "not_found"
    ELSE IF h.status = 200 THEN
        IF h.body = "notjson" THEN "not_found"
        ELSE IF prompt_id \in h.keys THEN "found" ELSE "not_found"
    ELSE "not_found"

\* one history query of the poller of the script s
PollOnce(s, h, prompt_id) ==
    CASE s = "flux_lora" -> flux_poll_once(h, prompt_id)
      [] s = "instagram_lora" -> IF check_progress(h, prompt_id) THEN "found" ELSE "not_found"
      [] OTHER -> yoga_poll_once(h, prompt_id)

\* time.sleep between two history queries, in seconds
FluxPollSleep == 2
LoraPollSleep == 2
YogaPollSleep == 5

PollSleepOf(s) ==
    CASE s = "flux_lora" -> FluxPollSleep
      [] s = "instagram_lora" -> LoraPollSleep
      [] OTHER -> YogaPollSleep

\* the prompts of the batch
PromptList == <<"red apple on a table", "woman portrait">>

ItemPrompt(i) == PromptList[((i - 1) % Len(PromptList)) + 1]

\* the optimizer of an enhancing script
OptimizerOf(s) == IF s = "advanced_batch" THEN "batch" ELSE "instagram"

\* what the text-generation server does during a run
RunEnhEnvs(s) ==
    {e \in EnhEnvs :
        /\ e.rng = 0
        /\ e.text \in {"", TextFull, TextOtherKeys, TextNoSampler}
        /\ (s = "advanced_batch" => e.probe = "ok")}

\* the trigger words of the LoRA chosen for a prompt
RunTriggers(s) == IF s = "advanced_batch" THEN {<<>>} ELSE {<<>>, Take(TriggerWords, 2)}

\* generate_batch raises on the enhancer's data d: the prints of style_notes and
\* optimized_prompt, then create_optimized_workflow
BatchItemRaises(d, timestamp) ==
    \/ "style_notes" \notin d.has
    \/ "optimized_prompt" \notin d.has
    \/ advanced_batch_create_optimized_workflow([data |-> d, now |-> timestamp]).raised

\* an entry of yoga's generation_log
LogEntry(index, prompt_id, status) ==
    [index |-> index, prompt_id |-> prompt_id, status |-> status]

RunIdle ==
    /\ script = "none"
    /\ count = 0
    /\ timeout = 0
    /\ pc = "idle"
    /\ idx = 0
    /\ probed = FALSE
    /\ posts = 0
    /\ lastResp = NoResp
    /\ subResult = SubResult("none", NoId)
    /\ raisedBy = "none"
    /\ jobId = NoId
    /\ elapsed = 0
    /\ queries = 0
    /\ firstFoundAt = 0
    /\ lastNet = "none"
    /\ pollResult = FALSE
    /\ successful = 0
    /\ failed = 0
    /\ results = <<>>
    /\ genlog = <<>>
    /\ outcomes = <<>>

InitRun ==
    /\ script \in Scripts
    /\ count \in (IF script \in SingleScripts THEN {1} ELSE 1..MaxItems)
    /\ timeout \in (IF script \in TimedScripts THEN 1..MaxTimeout ELSE {0})
    /\ pc = (IF script \in ProbeScripts THEN "probe" ELSE "loop")
    /\ idx = 1
    /\ probed = FALSE
    /\ posts = 0
    /\ lastResp = NoResp
    /\ subResult = SubResult("none", NoId)
    /\ raisedBy = "none"
    /\ jobId = NoId
    /\ elapsed = 0
    /\ queries = 0
    /\ firstFoundAt = 0
    /\ lastNet = "none"
    /\ pollResult = FALSE
    /\ successful = 0
    /\ failed = 0
    /\ results = <<>>
    /\ genlog = <<>>
    /\ outcomes = <<>>

\* the GET /system_stats before the loop; a script whose probe fails returns
\* (yoga returns 0 successful and all failed)
Probe ==
    /\ pc = "probe"
    /\ \E p \in ProbeResps :
         IF ProbePasses(script, p)
         THEN probed' = TRUE /\ pc' = "loop" /\ failed' = failed
         ELSE probed' = FALSE /\ pc' = "done"
              /\ failed' = (IF script = "yoga" THEN count ELSE failed)
    /\ UNCHANGED <<script, count, timeout, idx, posts, lastResp, subResult, raisedBy>>
    /\ UNCHANGED <<pollVars, successful, results, genlog, outcomes>>
    /\ UNCHANGED <<graphVars, enhVars, apiVars>>

\* the head of the loop body up to the POST: the enhancer call and the builder
BeginItem ==
    /\ pc = "loop"
    /\ idx <= count
    /\ IF script \in EnhanceScripts
       THEN \E e \in RunEnhEnvs(script), tw \in RunTriggers(script) :
              LET o == optimize_prompt(OptimizerOf(script), ItemPrompt(idx), tw, e)
                  raises == script = "advanced_batch" /\ BatchItemRaises(o.data, idx)
              IN  /\ eOpt' = OptimizerOf(script)
                  /\ eBase' = ItemPrompt(idx)
                  /\ eTriggers' = tw
                  /\ eEnv' = e
                  /\ ePc' = "returned"
                  /\ eOut' = o
                  /\ pc' = (IF raises THEN "raised" ELSE "post")
                  /\ raisedBy' = (IF raises THEN "enhance" ELSE raisedBy)
       ELSE /\ pc' = "post"
            /\ UNCHANGED <<enhVars, raisedBy>>
    /\ UNCHANGED <<script, count, timeout, idx, probed, posts, lastResp, subResult>>
    /\ UNCHANGED <<pollVars, tallyVars>>
    /\ UNCHANGED <<graphVars, apiVars>>

\* the submit step: the POST /prompt and what the submit function makes of the
\* answer (ComfyUIManager.queue_prompt probes first and may send nothing)
Submit ==
    /\ pc = "post"
    /\ \E p \in ProbeResps, r \in PostResps :
         LET sent == script # "flux_handler" \/ ProbePasses(script, p)
             res == SubmitOf(script, p, r)
         IN  /\ (script # "flux_handler" => p = "ok")
             /\ (~sent => r.net = "neterr")
             /\ lastResp' = (IF sent THEN r ELSE NoResp)
             /\ posts' = posts + posts_of_call(sent, r)
             /\ probed' = (IF script = "flux_handler" THEN sent ELSE probed)
             /\ subResult' = res
             /\ pc' = (IF res.kind = "raised" THEN "raised" ELSE "posted")
             /\ raisedBy' = (IF res.kind = "raised" THEN "submit" ELSE raisedBy)
    /\ UNCHANGED <<script, count, timeout, idx>>
    /\ UNCHANGED <<pollVars, tallyVars>>
    /\ UNCHANGED <<graphVars, enhVars, apiVars>>

\* a caller that goes on whatever the submit step returned
QueuedAlways == TRUE

\* the caller has a job id to go on with: "if prompt_id:" and
\* 'if result and "prompt_id" in result:'
Queued == subResult.kind \in {"id", "body"} /\ subResult.id # NoId

\* the loop appends to its results list
Appended ==
    CASE script = "generate_images" -> subResult.kind = "body"
      [] script \in SingleScripts -> Queued
      [] OTHER -> subResult.kind = "id"

\* what the caller does with the submit step's result
AfterSubmit ==
    /\ pc = "posted"
    /\ IF script \in PollScripts /\ Queued
       THEN /\ jobId' = subResult.id
            /\ elapsed' = 0
            /\ queries' = 0
            /\ firstFoundAt' = 0
            /\ lastNet' = "none"
            /\ pollResult' = FALSE
            /\ results' = (IF script = "instagram_lora"
                           THEN Append(results, subResult.id) ELSE results)
            /\ pc' = "poll_query"
            /\ UNCHANGED <<idx, successful, failed, genlog, outcomes>>
       ELSE /\ IF script \in PollScripts
               THEN /\ failed' = (IF script = "yoga" THEN failed + 1 ELSE failed)
                    /\ genlog' = (IF script = "yoga"
                                  THEN Append(genlog, LogEntry(idx, NoId, "failed_to_queue"))
                                  ELSE genlog)
                    /\ outcomes' = Append(outcomes, "not_queued")
                    /\ UNCHANGED results
               ELSE /\ results' = (IF Appended THEN Append(results, subResult.id) ELSE results)
                    /\ outcomes' = Append(outcomes, IF Appended THEN "queued" ELSE "not_queued")
                    /\ UNCHANGED <<failed, genlog>>
            /\ idx' = idx + 1
            /\ pc' = "loop"
            /\ UNCHANGED <<pollVars, successful>>
    /\ UNCHANGED <<script, count, timeout, probed, posts, lastResp, subResult, raisedBy>>
    /\ UNCHANGED <<graphVars, enhVars, apiVars>>

\* one GET /history/<id> of wait_for_completion; the request takes d seconds. The
\* loop without a timeout never reads the clock, and its query counter stops at
\* MaxQueries
PollQuery ==
    /\ pc = "poll_query"
    /\ \E h \in HistResps, d \in 0..MaxReqTime :
         LET q == IF script \in TimedScripts THEN queries + 1
                  ELSE Min(queries + 1, MaxQueries)
             r == PollOnce(script, h, jobId)
         IN  /\ (script \notin TimedScripts => d = 0)
             /\ queries' = q
             /\ lastNet' = h.net
             /\ firstFoundAt' = (IF firstFoundAt = 0 /\ HistHasJob(h, jobId)
                                 THEN q ELSE firstFoundAt)
             /\ elapsed' = elapsed + d
             /\ pollResult' = (r = "found")
             /\ pc' = (CASE r = "found" -> "polled"
                         [] r = "raised" -> "raised"
                         [] OTHER -> "poll_sleep")
             /\ raisedBy' = (IF r = "raised" THEN "poll" ELSE raisedBy)
    /\ UNCHANGED <<script, count, timeout, idx, probed, posts, lastResp, subResult, jobId>>
    /\ UNCHANGED tallyVars
    /\ UNCHANGED <<graphVars, enhVars, apiVars>>

\* time.sleep and the loop condition time.time() - start_time < timeout
PollSleep ==
    /\ pc = "poll_sleep"
    /\ IF script \in TimedScripts
       THEN /\ elapsed' = elapsed + PollSleepOf(script)
            /\ pc' = (IF elapsed' < timeout THEN "poll_query" ELSE "polled")
       ELSE /\ elapsed' = elapsed
            /\ pc' = "poll_query"
    /\ UNCHANGED <<script, count, timeout, idx, probed, posts, lastResp, subResult, raisedBy>>
    /\ UNCHANGED <<jobId, queries, firstFoundAt, lastNet, pollResult>>
    /\ UNCHANGED tallyVars
    /\ UNCHANGED <<graphVars, enhVars, apiVars>>

\* what the caller does when wait_for_completion has returned
AfterPoll ==
    /\ pc = "polled"
    /\ successful' = (IF script = "flux_lora" \/ (script = "yoga" /\ pollResult)
                      THEN successful + 1 ELSE successful)
    /\ failed' = (IF script = "yoga" /\ ~pollResult THEN failed + 1 ELSE failed)
    /\ genlog' = (IF script = "yoga"
                  THEN Append(genlog, LogEntry(idx, jobId,
                                               IF pollResult THEN "success" ELSE "timeout"))
                  ELSE genlog)
    /\ outcomes' = Append(outcomes, IF pollResult THEN "completed" ELSE "timed_out")
    /\ idx' = idx + 1
    /\ pc' = "loop"
    /\ UNCHANGED <<script, count, timeout, probed, posts, lastResp, subResult, raisedBy>>
    /\ UNCHANGED <<pollVars, results>>
    /\ UNCHANGED <<graphVars, enhVars, apiVars>>

\* the loop is over: the script reports and returns
Finish ==
    /\ pc = "loop"
    /\ idx > count
    /\ pc' = "done"
    /\ UNCHANGED <<script, count, timeout, idx, probed, posts, lastResp, subResult, raisedBy>>
    /\ UNCHANGED <<pollVars, tallyVars>>
    /\ UNCHANGED <<graphVars, enhVars, apiVars>>

NextRun ==
    \/ Probe
    \/ BeginItem
    \/ Submit
    \/ AfterSubmit
    \/ PollQuery
    \/ PollSleep
    \/ AfterPoll
    \/ Finish

(***************************************************************************)
(* The startup of the cloud-API scripts: config.py and the credential      *)
(* check at module level.                                                  *)
(***************************************************************************)
ApiScripts == {"fal_yoga", "simple_fal", "cloud_yoga", "hf_yoga", "hf_yoga_50"}

\* the environment variables config.py reads for these scripts
CredentialNames == {"HF_TOKEN", "CIVITAI_TOKEN", "FAL_API", "REPLICATE_API"}

\* the environment after load_dotenv
Environments == [CredentialNames -> {"absent", "empty", "set"}]

\* os.environ.get(name, ""): TRUE when the value is a non-empty string
EnvGet(env, name) == env[name] = "set"

\* config.HF_TOKEN, FAL_API, REPLICATE_API and CIVITAI_TOKEN as truth values;
\* CIVITAI_TOKEN defaults to HF_TOKEN when the variable is absent
ConfigValue(env, name) ==
    IF name = "CIVITAI_TOKEN"
    THEN IF env["CIVITAI_TOKEN"] = "absent" THEN EnvGet(env, "HF_TOKEN")
         ELSE EnvGet(env, "CIVITAI_TOKEN")
    ELSE EnvGet(env, name)

\* config.verify_secrets(): the list missing, as a set; it returns missing = []
verify_secrets(env) ==
    {n \in {"HF_TOKEN", "CIVITAI_TOKEN"} : ~ConfigValue(env, n)}

\* the credentials each script uses for its network calls
RequiredOf(s) ==
    CASE s \in {"fal_yoga", "simple_fal"} -> {"FAL_API"}
      [] s = "cloud_yoga" -> {"FAL_API", "REPLICATE_API", "HF_TOKEN"}
      [] OTHER -> {"HF_TOKEN"}

\* the names in the message the script prints before sys.exit(1)
ExitMessageOf(s) ==
    CASE s \in {"fal_yoga", "simple_fal"} -> {"FAL_API"}
      [] s = "cloud_yoga" -> {"FAL_API", "REPLICATE_API", "HF_TOKEN"}
      [] OTHER -> {"HF_TOKEN"}

\* the scripts that import an API client package at module level
ImportingScripts == {"fal_yoga", "cloud_yoga"}

StartIdle ==
    /\ sScript = "none"
    /\ sEnv = [n \in CredentialNames |-> "absent"]
    /\ sClients = TRUE
    /\ sPc = "idle"
    /\ sPrinted = {}
    /\ sNet = 0

InitStart ==
    /\ sScript \in ApiScripts
    /\ sEnv \in Environments
    /\ sClients \in (IF sScript \in ImportingScripts THEN BOOLEAN ELSE {TRUE})
    /\ sPc = "start"
    /\ sPrinted = {}
    /\ sNet = 0

\* the module-level code up to the first definition: verify_secrets, the exit
\* message, the import of the client packages
Startup ==
    /\ sPc = "start"
    /\ LET missing == verify_secrets(sEnv)
       IN  IF missing # {}
           THEN /\ sPrinted' = missing \cup ExitMessageOf(sScript)
                /\ sPc' = "exited"
           ELSE /\ sPrinted' = {}
                /\ sPc' = (IF sClients THEN "running" ELSE "exited")
    /\ UNCHANGED <<sScript, sEnv, sClients, sNet>>
    /\ UNCHANGED <<graphVars, enhVars, runVars, falVars, hfVars, expandVars, moreVars>>

\* a request of the running script to its API
NetworkCall ==
    /\ sPc = "running"
    /\ sNet < MaxNetCalls
    /\ sNet' = sNet + 1
    /\ UNCHANGED <<sScript, sEnv, sClients, sPc, sPrinted>>
    /\ UNCHANGED <<graphVars, enhVars, runVars, falVars, hfVars, expandVars, moreVars>>

NextStart == Startup \/ NetworkCall

(***************************************************************************)
(* The concurrent batch of fal_yoga_generator_fixed.py: one task per pose, *)
(* a semaphore around each task's body, asyncio.gather over all tasks.     *)
(* A task may be suspended between any two of its steps.                   *)
(***************************************************************************)
\* asyncio.Semaphore(3)
FalConcurrency == 3

\* the state of one task: where it is and the status of the record it returns
FalTask(tpc, status) == [pc |-> tpc, status |-> status]

\* the tasks that have returned their record
FalReturned == {i \in 1..fN : fTask[i].pc = "returned"}

\* the record a task returns, as far as the aggregation reads it
FalRecord(index, status) == [index |-> index, status |-> status]

RECURSIVE GatherFrom(_, _)
\* asyncio.gather: the records of the tasks i..fN in the order of the tasks
GatherFrom(tasks, i) ==
    IF i > Len(tasks) THEN <<>>
    ELSE <<FalRecord(i, tasks[i].status)>> \o GatherFrom(tasks, i + 1)

\* an aggregation that keeps the records in a set keyed by status
gather_results_by_status(tasks) ==
    LET kept == {i \in 1..Len(tasks) :
                    \A j \in 1..Len(tasks) : tasks[j].status = tasks[i].status => i <= j}
    IN  GatherFrom([k \in 1..Cardinality(kept) |->
                       tasks[CHOOSE i \in kept :
                               Cardinality({j \in kept : j <= i}) = k]], 1)

\* results = await asyncio.gather(*tasks, return_exceptions=True) and
\* valid_results: no task lets an exception out, so every result is a record
gather_results(tasks) == GatherFrom(tasks, 1)

\* a filter that no record with another status than "success" passes
WithStatusSuccessOnly(rs, st) ==
    {k \in 1..Len(rs) : rs[k].status = st /\ st = "success"}

\* the records of rs with the status st
WithStatus(rs, st) == {k \in 1..Len(rs) : rs[k].status = st}

FalIdle ==
    /\ fN = 0
    /\ fPermits = 0
    /\ fTask = <<>>
    /\ fMain = "idle"
    /\ fResults = <<>>
    /\ fSuccessful = 0
    /\ fFailed = 0
    /\ fOutOfOrder = FALSE

\* generate_all_images up to the gather: the semaphore and one task per pose
InitFal ==
    /\ fN \in 1..MaxPoses
    /\ fPermits = FalConcurrency
    /\ fTask = [i \in 1..fN |-> FalTask("waiting", "none")]
    /\ fMain = "gather"
    /\ fResults = <<>>
    /\ fSuccessful = 0
    /\ fFailed = 0
    /\ fOutOfOrder = FALSE

\* semaphore.acquire() with the permits p: the task may enter
semaphore_admits_always(p) == TRUE

\* semaphore.acquire(): the task enters when the value is positive
semaphore_admits(p) == p > 0

\* "async with semaphore": task i enters the guarded section
AcquireBy(i) ==
    /\ fTask[i].pc = "waiting"
    /\ semaphore_admits(fPermits)
    /\ fPermits' = fPermits - 1
    /\ fTask' = [fTask EXCEPT ![i] = FalTask("request", "none")]
    /\ UNCHANGED <<fN, fMain, fResults, fSuccessful, fFailed, fOutOfOrder>>

\* task i has returned: the semaphore is released and the completion order noted
FalReturn(i, status) ==
    /\ fPermits' = fPermits + 1
    /\ fTask' = [fTask EXCEPT ![i] = FalTask("returned", status)]
    /\ fOutOfOrder' = (fOutOfOrder \/ \E j \in 1..(i - 1) : fTask[j].pc # "returned")

\* fal.run: the result holds an image url, holds none, or the call raises
RequestBy(i) ==
    /\ fTask[i].pc = "request"
    /\ \E outcome \in {"images", "no_images", "exception"} :
         IF outcome = "images"
         THEN /\ fTask' = [fTask EXCEPT ![i] = FalTask("download", "none")]
              /\ UNCHANGED <<fPermits, fOutOfOrder>>
         ELSE FalReturn(i, "failed")
    /\ UNCHANGED <<fN, fMain, fResults, fSuccessful, fFailed>>

\* the download of the image: status 200 and the file written, another status,
\* or an exception
DownloadBy(i) ==
    /\ fTask[i].pc = "download"
    /\ \E outcome \in {"ok", "non200", "exception"} :
         FalReturn(i, IF outcome = "ok" THEN "success" ELSE "failed")
    /\ UNCHANGED <<fN, fMain, fResults, fSuccessful, fFailed>>

FalAcquire ==
    /\ \E i \in 1..fN : AcquireBy(i)
    /\ UNCHANGED <<graphVars, enhVars, runVars, startVars, hfVars, expandVars, moreVars>>

FalRequest ==
    /\ \E i \in 1..fN : RequestBy(i)
    /\ UNCHANGED <<graphVars, enhVars, runVars, startVars, hfVars, expandVars, moreVars>>

FalDownload ==
    /\ \E i \in 1..fN : DownloadBy(i)
    /\ UNCHANGED <<graphVars, enhVars, runVars, startVars, hfVars, expandVars, moreVars>>

\* the gather returns when every task has returned; the counts are taken
FalGather ==
    /\ fMain = "gather"
    /\ FalReturned = 1..fN
    /\ fResults' = gather_results(fTask)
    /\ fSuccessful' = Cardinality(WithStatus(fResults', "success"))
    /\ fFailed' = Cardinality(WithStatus(fResults', "failed"))
    /\ fMain' = "done"
    /\ UNCHANGED <<fN, fPermits, fTask, fOutOfOrder>>
    /\ UNCHANGED <<graphVars, enhVars, runVars, startVars, hfVars, expandVars, moreVars>>

NextFal ==
    \/ FalAcquire
    \/ FalRequest
    \/ FalDownload
    \/ FalGather

(***************************************************************************)
(* The sequential batch of the Hugging Face generator                      *)
(* (hf_yoga_generator_50.py): generate_all_50_images calls                 *)
(* generate_single_image_hf for one pose after the other.                  *)
(***************************************************************************)
\* for attempt in range(3)
HfAttempts == 3

\* what the POST of one attempt can lead to: 200 and the file written, 200 and
\* the read or the write raising, 503 with "loading" in the text, 503 with
\* another text, another status, an exception of the POST
HfOutcomes == {"ok", "save_error", "loading", "unavailable", "status", "exception"}

HfSuccess(index, attempt) ==
    [index |-> index, status |-> "success", attempt |-> attempt + 1]

HfFailure(index) == [index |-> index, status |-> "failed"]

NoRecord == [index |-> 0, status |-> "none"]

HfContinue == [index |-> 0, status |-> "continue"]

\* the handling of the POST of attempt number attempt (0-based) that any later
\* attempt may follow
hf_attempt_retry_always(index, attempt, outcome) ==
    CASE outcome = "ok" -> HfSuccess(index, attempt)
      [] outcome = "unavailable" -> HfFailure(index)
      [] OTHER -> HfContinue

\* the body of "for attempt in range(3)": the record returned, or HfContinue
\* when the loop goes to its next attempt
hf_attempt(index, attempt, outcome) ==
    CASE outcome = "ok" -> HfSuccess(index, attempt)
      [] outcome = "unavailable" -> HfFailure(index)
      [] OTHER -> IF attempt < HfAttempts - 1 THEN HfContinue ELSE HfFailure(index)

HfIdle ==
    /\ hN = 0
    /\ hPc = "idle"
    /\ hIdx = 0
    /\ hAttempt = 0
    /\ hPosts = 0
    /\ hResult = NoRecord
    /\ hResults = <<>>
    /\ hSuccessful = 0
    /\ hFailed = 0

\* generate_all_50_images at the head of its loop
InitHf ==
    /\ hN \in 1..MaxHfPoses
    /\ hPc = "loop"
    /\ hIdx = 1
    /\ hAttempt = 0
    /\ hPosts = 0
    /\ hResult = NoRecord
    /\ hResults = <<>>
    /\ hSuccessful = 0
    /\ hFailed = 0

\* the loop calls generate_single_image_hf for the next pose
HfBeginItem ==
    /\ hPc = "loop"
    /\ hIdx <= hN
    /\ hPc' = "post"
    /\ hAttempt' = 0
    /\ hPosts' = 0
    /\ hResult' = NoRecord
    /\ UNCHANGED <<hN, hIdx, hResults, hSuccessful, hFailed>>
    /\ UNCHANGED <<graphVars, enhVars, runVars, startVars, falVars, expandVars, moreVars>>

\* one attempt: session.post and the handling of its answer
HfPost ==
    /\ hPc = "post"
    /\ hAttempt < HfAttempts
    /\ \E outcome \in HfOutcomes :
         LET r == hf_attempt(hIdx, hAttempt, outcome)
         IN  /\ hPosts' = hPosts + 1
             /\ IF r = HfContinue
                THEN /\ hAttempt' = hAttempt + 1
                     /\ UNCHANGED <<hPc, hResult>>
                ELSE /\ hResult' = r
                     /\ hPc' = "append"
                     /\ UNCHANGED hAttempt
    /\ UNCHANGED <<hN, hIdx, hResults, hSuccessful, hFailed>>
    /\ UNCHANGED <<graphVars, enhVars, runVars, startVars, falVars, expandVars, moreVars>>

\* results.append(result) and the count of the result
HfAppend ==
    /\ hPc = "append"
    /\ hResults' = Append(hResults, hResult)
    /\ hSuccessful' = (IF hResult.status = "success" THEN hSuccessful + 1 ELSE hSuccessful)
    /\ hFailed' = (IF hResult.status = "success" THEN hFailed ELSE hFailed + 1)
    /\ hIdx' = hIdx + 1
    /\ hPc' = "loop"
    /\ UNCHANGED <<hN, hAttempt, hPosts, hResult>>
    /\ UNCHANGED <<graphVars, enhVars, runVars, startVars, falVars, expandVars, moreVars>>

\* the loop is over: the log is written and (successful, failed) returned
HfFinish ==
    /\ hPc = "loop"
    /\ hIdx > hN
    /\ hPc' = "done"
    /\ UNCHANGED <<hN, hIdx, hAttempt, hPosts, hResult, hResults, hSuccessful, hFailed>>
    /\ UNCHANGED <<graphVars, enhVars, runVars, startVars, falVars, expandVars, moreVars>>

NextHf ==
    \/ HfBeginItem
    \/ HfPost
    \/ HfAppend
    \/ HfFinish

(***************************************************************************)
(* promptsmith_client.py: expand_prompt and its fallback.                  *)
(***************************************************************************)
\* ENDPOINTS
Endpoints ==
    <<"http://127.0.0.1:11434", "http://localhost:11434", "http://10.0.0.100:8080",
      "http://127.0.0.1:8080">>

NoEndpoint == 0

\* a search that keeps the last endpoint that answers
find_last_working_endpoint(reach) ==
    IF \E i \in 1..Len(Endpoints) : reach[i]
    THEN CHOOSE i \in 1..Len(Endpoints) : reach[i] /\ \A j \in (i + 1)..Len(Endpoints) : ~reach[j]
    ELSE NoEndpoint

\* find_working_endpoint(): the first endpoint whose GET /api/tags is answered
\* 200 (reach[i]), as its position in ENDPOINTS, or None
find_working_endpoint(reach) ==
    IF \E i \in 1..Len(Endpoints) : reach[i]
    THEN CHOOSE i \in 1..Len(Endpoints) : reach[i] /\ \A j \in 1..(i - 1) : ~reach[j]
    ELSE NoEndpoint

\* the answer to a POST of the text-generation server: err when the request
\* raises or the status is an error, else the text of the body's field
ExpandAnswer(err, text) == [err |-> err, text |-> text]

ExpandAnswers ==
    {ExpandAnswer(TRUE, ""), ExpandAnswer(FALSE, ""), ExpandAnswer(FALSE, "   "),
     ExpandAnswer(FALSE, " a red apple, soft light ")}

\* None
NoText == "<None>"

\* expand_prompt_ollama / expand_prompt_llamacpp: the stripped text, None on an error
expand_prompt_remote(a) == IF a.err THEN NoText ELSE Strip(a.text)

\* "if result:"
Truthy(t) == t # NoText /\ t # ""

ExpandStyles ==
    <<"masterpiece, best quality, highly detailed",
      "photorealistic, 8K resolution, professional photography",
      "cinematic lighting, dramatic composition",
      "vibrant colors, sharp focus, intricate details">>

\* random.choice(l) in the generator state rng
RandomChoice(l, rng) == l[(rng % Len(l)) + 1]

\* expand_prompt_fallback(base_prompt) in the generator state rng
expand_prompt_fallback(base_prompt, rng) ==
    base_prompt \o ", " \o RandomChoice(ExpandStyles, rng)

ExpandResult(path, text, nposts) == [path |-> path, text |-> text, posts |-> nposts]

\* an expand_prompt whose fallback picks its style by the endpoint found
expand_prompt_by_endpoint(base_prompt, e) ==
    LET endpoint == find_working_endpoint(e.reach)
        ollama == expand_prompt_remote(e.ollama)
        llamacpp == expand_prompt_remote(e.llamacpp)
    IN  IF endpoint # NoEndpoint /\ Truthy(ollama) THEN ExpandResult("ollama", ollama, 1)
        ELSE IF endpoint # NoEndpoint /\ Truthy(llamacpp)
        THEN ExpandResult("llamacpp", llamacpp, 2)
        ELSE ExpandResult("fallback", expand_prompt_fallback(base_prompt, e.rng + endpoint),
                          IF endpoint # NoEndpoint THEN 2 ELSE 0)

\* expand_prompt(base_prompt) in the environment e
expand_prompt(base_prompt, e) ==
    LET endpoint == find_working_endpoint(e.reach)
        ollama == expand_prompt_remote(e.ollama)
        llamacpp == expand_prompt_remote(e.llamacpp)
    IN  IF endpoint # NoEndpoint /\ Truthy(ollama) THEN ExpandResult("ollama", ollama, 1)
        ELSE IF endpoint # NoEndpoint /\ Truthy(llamacpp)
        THEN ExpandResult("llamacpp", llamacpp, 2)
        ELSE ExpandResult("fallback", expand_prompt_fallback(base_prompt, e.rng),
                          IF endpoint # NoEndpoint THEN 2 ELSE 0)

\* which endpoints answer, what the two APIs answer and the state of the random
\* generator
ExpandEnvsIn(rngs) ==
    {e \in [reach : [1..Len(Endpoints) -> BOOLEAN], ollama : ExpandAnswers,
            llamacpp : ExpandAnswers, rng : rngs] :
        /\ (find_working_endpoint(e.reach) = NoEndpoint =>
               e.ollama = ExpandAnswer(TRUE, "") /\ e.llamacpp = ExpandAnswer(TRUE, ""))
        /\ (Truthy(expand_prompt_remote(e.ollama)) => e.llamacpp = ExpandAnswer(TRUE, ""))}

ExpandEnvs == ExpandEnvsIn(0..MaxRng)

NoExpandEnv ==
    [reach |-> [i \in 1..Len(Endpoints) |-> FALSE], ollama |-> ExpandAnswer(TRUE, ""),
     llamacpp |-> ExpandAnswer(TRUE, ""), rng |-> 0]

ExpandIdle ==
    /\ xBase = ""
    /\ xEnv = NoExpandEnv
    /\ xPc = "idle"
    /\ xOut = ExpandResult("none", "", 0)

InitExpand ==
    /\ xBase \in BasePrompts
    /\ xEnv = NoExpandEnv
    /\ xPc = "call"
    /\ xOut = ExpandResult("none", "", 0)

\* expand_prompt is called and returns
Expand ==
    /\ xPc = "call"
    /\ \E e \in ExpandEnvs :
         /\ xEnv' = e
         /\ xOut' = expand_prompt(xBase, e)
    /\ xPc' = "returned"
    /\ UNCHANGED xBase
    /\ UNCHANGED <<graphVars, enhVars, runVars, startVars, falVars, hfVars, moreVars>>

(***************************************************************************)
(* The 10-image Hugging Face generator (hf_yoga_generator.py):             *)
(* generate_single_image_hf calls itself again on a 503 "loading" answer.  *)
(***************************************************************************)
\* the record generate_single_image_hf returns for the answer of its POST, or
\* HfContinue when it sleeps and calls itself again; a call nested deeper than
\* the interpreter's recursion limit raises RecursionError, which the caller's
\* "except Exception" turns into a failed record
hf10_single_image(index, depth, outcome) ==
    CASE outcome = "ok" -> [index |-> index, status |-> "success"]
      [] outcome = "loading" ->
            IF depth + 1 < RecursionLimit THEN HfContinue ELSE HfFailure(index)
      [] OTHER -> HfFailure(index)

RetryIdle ==
    /\ rN = 0
    /\ rPc = "idle"
    /\ rIdx = 0
    /\ rDepth = 0
    /\ rPosts = 0
    /\ rResult = NoRecord
    /\ rResults = <<>>

\* generate_all_images at the head of its loop
InitRetry ==
    /\ rN \in 1..MaxHfPoses
    /\ rPc = "loop"
    /\ rIdx = 1
    /\ rDepth = 0
    /\ rPosts = 0
    /\ rResult = NoRecord
    /\ rResults = <<>>

\* the loop calls generate_single_image_hf for the next pose
RetryBeginItem ==
    /\ rPc = "loop"
    /\ rIdx <= rN
    /\ rPc' = "post"
    /\ rDepth' = 0
    /\ rPosts' = 0
    /\ rResult' = NoRecord
    /\ UNCHANGED <<rN, rIdx, rResults>>
    /\ UNCHANGED notRetryVars

\* session.post of the call at nesting depth rDepth and the handling of its answer
RetryPost ==
    /\ rPc = "post"
    /\ \E outcome \in HfOutcomes :
         LET r == hf10_single_image(rIdx, rDepth, outcome)
         IN  /\ rPosts' = rPosts + 1
             /\ IF r = HfContinue
                THEN /\ rDepth' = rDepth + 1
                     /\ UNCHANGED <<rPc, rResult>>
                ELSE /\ rResult' = r
                     /\ rPc' = "append"
                     /\ UNCHANGED rDepth
    /\ UNCHANGED <<rN, rIdx, rResults>>
    /\ UNCHANGED notRetryVars

\* results.append(result)
RetryAppend ==
    /\ rPc = "append"
    /\ rResults' = Append(rResults, rResult)
    /\ rIdx' = rIdx + 1
    /\ rPc' = "loop"
    /\ UNCHANGED <<rN, rDepth, rPosts, rResult>>
    /\ UNCHANGED notRetryVars

\* the loop is over
RetryFinish ==
    /\ rPc = "loop"
    /\ rIdx > rN
    /\ rPc' = "done"
    /\ UNCHANGED <<rN, rIdx, rDepth, rPosts, rResult, rResults>>
    /\ UNCHANGED notRetryVars

NextRetry ==
    \/ RetryBeginItem
    \/ RetryPost
    \/ RetryAppend
    \/ RetryFinish

(***************************************************************************)
(* The multi-API generator (cloud_yoga_generator.py): generate_all_images. *)
(***************************************************************************)
CloudApis == {"fal", "replicate", "huggingface"}

\* the pose lists: YOGA_POSES holds fal, replicate and huggingface entries
CloudPoseLists == UNION {[1..n -> CloudApis] : n \in 1..MaxCloudPoses}

\* what the dispatch loop puts into tasks for a pose: asyncio.create_task for
\* fal, executor.submit for replicate and huggingface
task_of(api) == IF api = "fal" THEN "task" ELSE "future"

\* a test that only asyncio tasks pass
is_asyncio_task(t) == t = "task"

\* hasattr(t, "add_done_callback"): asyncio.Task and concurrent.futures.Future
\* both have the method
has_add_done_callback(t) == t \in {"task", "future"}

async_tasks(tasks) == {i \in DOMAIN tasks : has_add_done_callback(tasks[i])}

sync_tasks(tasks) == {i \in DOMAIN tasks : ~has_add_done_callback(tasks[i])}

\* the value of the record's "api" field each generator writes
api_label(api) == IF api = "fal" THEN "fal.ai" ELSE api

CloudRecord(index, api, status) == [index |-> index, api |-> api_label(api), status |-> status]

\* the records of the tasks in is, in ascending index order, with the statuses st
RECURSIVE RecordsIn(_, _, _)
RecordsIn(is, apis, st) ==
    IF is = {} THEN <<>>
    ELSE LET i == CHOOSE k \in is : \A j \in is : k <= j
         IN  <<CloudRecord(i, apis[i], st[i])>> \o RecordsIn(is \ {i}, apis, st)

CountStatus(rs, status) == Cardinality({k \in 1..Len(rs) : rs[k].status = status})

CloudIdle ==
    /\ cPoses = <<>>
    /\ cPc = "idle"
    /\ cTasks = <<>>
    /\ cResults = <<>>
    /\ cCompleted = 0
    /\ cFailed = 0
    /\ cLogged = FALSE
    /\ cRaised = "none"

InitCloud ==
    /\ cPoses \in CloudPoseLists
    /\ cPc = "dispatch"
    /\ cTasks = <<>>
    /\ cResults = <<>>
    /\ cCompleted = 0
    /\ cFailed = 0
    /\ cLogged = FALSE
    /\ cRaised = "none"

\* the loop over YOGA_POSES that creates one task per pose
CloudDispatch ==
    /\ cPc = "dispatch"
    /\ cTasks' = [i \in DOMAIN cPoses |-> task_of(cPoses[i])]
    /\ cPc' = "gather"
    /\ UNCHANGED <<cPoses, cResults, cCompleted, cFailed, cLogged, cRaised>>
    /\ UNCHANGED notCloudVars

\* asyncio.gather(*async_tasks, return_exceptions=True) and the count of its
\* results: gather raises TypeError when an argument is not awaitable, as an
\* executor future is; generate_with_fal returns a record for every outcome
CloudGather ==
    /\ cPc = "gather"
    /\ IF \E i \in async_tasks(cTasks) : cTasks[i] # "task"
       THEN /\ cPc' = "raised"
            /\ cRaised' = "TypeError"
            /\ UNCHANGED <<cResults, cCompleted, cFailed>>
       ELSE \E st \in [async_tasks(cTasks) -> {"success", "failed"}] :
              LET rs == RecordsIn(async_tasks(cTasks), cPoses, st)
              IN  /\ cResults' = cResults \o rs
                  /\ cCompleted' = cCompleted + CountStatus(rs, "success")
                  /\ cFailed' = cFailed + CountStatus(rs, "failed")
              /\ cPc' = "sync"
              /\ UNCHANGED cRaised
    /\ UNCHANGED <<cPoses, cTasks, cLogged>>
    /\ UNCHANGED notCloudVars

\* for future in as_completed(sync_tasks): each result is appended and counted
CloudSync ==
    /\ cPc = "sync"
    /\ \E st \in [sync_tasks(cTasks) -> {"success", "failed"}] :
         LET rs == RecordsIn(sync_tasks(cTasks), cPoses, st)
         IN  /\ cResults' = cResults \o rs
             /\ cCompleted' = cCompleted + CountStatus(rs, "success")
             /\ cFailed' = cFailed + CountStatus(rs, "failed")
    /\ cPc' = "report"
    /\ UNCHANGED <<cPoses, cTasks, cLogged, cRaised>>
    /\ UNCHANGED notCloudVars

\* the log, the summary with total_time/completed, and the per-API breakdown
\* api_success[result.get("api", "unknown")] += 1 over the successful records
CloudReport ==
    /\ cPc = "report"
    /\ cLogged' = TRUE
    /\ cRaised' =
          (IF cCompleted = 0 THEN "ZeroDivisionError"
           ELSE IF \E k \in 1..Len(cResults) :
                     cResults[k].status = "success" /\ cResults[k].api \notin CloudApis
                THEN "KeyError"
                ELSE "none")
    /\ cPc' = (IF cRaised' = "none" THEN "done" ELSE "raised")
    /\ UNCHANGED <<cPoses, cTasks, cResults, cCompleted, cFailed>>
    /\ UNCHANGED notCloudVars

NextCloud ==
    \/ CloudDispatch
    \/ CloudGather
    \/ CloudSync
    \/ CloudReport

(***************************************************************************)
(* enhanced_promptsmith.py: PromptSmithClient.                             *)
(***************************************************************************)
\* what one URL does: GET /health is answered 200, answered with another
\* status, or raises RequestException; the plain GET is answered or raises
UrlAnswers == [health : {"200", "status", "unreachable"}, plain : BOOLEAN]

UrlLists == UNION {[1..n -> UrlAnswers] : n \in 1..MaxUrls}

\* a loop body that takes every answer of /health for an active endpoint
url_is_active_on_any_answer(a) == a.health # "unreachable" \/ a.plain

\* the body of the loop of find_active_endpoint: TRUE when it sets active_url
url_is_active(a) ==
    IF a.health = "200" THEN TRUE
    ELSE IF a.health = "unreachable" THEN a.plain
    ELSE FALSE

\* the GET requests the loop body issues for one URL
gets_of_url(a) == IF a.health = "unreachable" THEN 2 ELSE 1

SmithIdle ==
    /\ pEnv = <<>>
    /\ pPc = "idle"
    /\ pIdx = 0
    /\ pActive = 0
    /\ pGets = 0
    /\ pPosts = 0
    /\ pOut = "none"

\* PromptSmithClient.__init__ up to the call of find_active_endpoint
InitSmith ==
    /\ pEnv \in UrlLists
    /\ pPc = "probe"
    /\ pIdx = 1
    /\ pActive = 0
    /\ pGets = 0
    /\ pPosts = 0
    /\ pOut = "none"

\* one pass of the loop of find_active_endpoint
SmithProbe ==
    /\ pPc = "probe"
    /\ pIdx <= Len(pEnv)
    /\ pGets' = pGets + gets_of_url(pEnv[pIdx])
    /\ IF url_is_active(pEnv[pIdx])
       THEN pActive' = pIdx /\ pPc' = "ready" /\ pIdx' = pIdx
       ELSE pActive' = pActive /\ pPc' = "probe" /\ pIdx' = pIdx + 1
    /\ UNCHANGED <<pEnv, pPosts, pOut>>
    /\ UNCHANGED notSmithVars

\* the loop is over without an active endpoint
SmithNoneFound ==
    /\ pPc = "probe"
    /\ pIdx > Len(pEnv)
    /\ pPc' = "ready"
    /\ UNCHANGED <<pEnv, pIdx, pActive, pGets, pPosts, pOut>>
    /\ UNCHANGED notSmithVars

\* enhance_prompt(basic_prompt)
SmithEnhance ==
    /\ pPc = "ready"
    /\ IF pActive = 0
       THEN pOut' = "None" /\ pPosts' = pPosts
       ELSE \E ok \in BOOLEAN :
              /\ pPosts' = pPosts + 1
              /\ pOut' = (IF ok THEN "body" ELSE "None")
    /\ pPc' = "returned"
    /\ UNCHANGED <<pEnv, pIdx, pActive, pGets>>
    /\ UNCHANGED notSmithVars

NextSmith ==
    \/ SmithProbe
    \/ SmithNoneFound
    \/ SmithEnhance

(***************************************************************************)
(* The timestamps of generate_batch (advanced_batch_generator.py) and of   *)
(* main (batch_instagram_generator.py).                                    *)
(***************************************************************************)
StampScripts == {"advanced_batch", "batch_instagram"}

\* the change of int(time.time()) from one reading to the next
ClockSteps == (0 - MaxStepBack)..MaxTick

NoFile == ""

\* the arguments the builder is called with for the prompt p at the time stamp
StampArgs(p, stamp) ==
    [prompt |-> p, negative |-> "blurry", seed |-> NoSeed, now |-> stamp, rnd |-> 7,
     width |-> 1024, height |-> 1024, steps |-> 20, cfg |-> 70, sampler |-> "euler",
     variant |-> "dev", lora |-> "", strength |-> 8, triggers |-> <<>>,
     prefix |-> "flux_generated", data |-> FullData]

\* the filename_prefix of the saving node of the graph g (SaveImage, or the
\* SaveText of create_working_workflow)
SavePrefix(g) ==
    LET n == CHOOSE k \in DOMAIN g : g[k].class_type \in {"SaveImage", "SaveText"}
    IN  g[n].inputs.filename_prefix.str

\* a time stamp that leaves the index out
batch_timestamp_clock_only(now, i) == now

\* timestamp = int(time.time()) + i
batch_timestamp(now, i) == now + i

\* the names one pass of the loop derives from its time stamp
StampItem(s, p, timestamp) ==
    [timestamp |-> timestamp,
     workflow_file |->
        IF s = "advanced_batch"
        THEN "workflows/batch/optimized_" \o ToString(timestamp) \o ".json"
        ELSE "workflows/batch_" \o ToString(timestamp) \o ".json",
     optimization_file |->
        IF s = "advanced_batch"
        THEN "workflows/batch/optimization_" \o ToString(timestamp) \o ".json"
        ELSE NoFile,
     prefix |-> SavePrefix(BuildGraph(s, StampArgs(p, timestamp)).graph)]

StampIdle ==
    /\ tScript = "none"
    /\ tN = 0
    /\ tPc = "idle"
    /\ tIdx = 0
    /\ tClock = 0
    /\ tBackwards = FALSE
    /\ tItems = <<>>

\* the head of the loop over the prompts; tClock is int(time.time()) at the start
InitStamp ==
    /\ tScript \in StampScripts
    /\ tN \in 1..MaxStampItems
    /\ tPc = "loop"
    /\ tIdx = 1
    /\ tClock = 1700000000
    /\ tBackwards = FALSE
    /\ tItems = <<>>

\* one pass of the loop: the clock is read d seconds after its last reading, the
\* graph is built and the files are written; in generate_batch the enhancer's
\* result may lack a key the loop prints, which ends the batch
StampPass ==
    /\ tPc = "loop"
    /\ tIdx <= tN
    /\ \E d \in ClockSteps, raises \in BOOLEAN :
         /\ (raises => tScript = "advanced_batch")
         /\ tClock' = tClock + d
         /\ tBackwards' = (tBackwards \/ d < 0)
         /\ IF raises
            THEN tPc' = "raised" /\ tItems' = tItems /\ tIdx' = tIdx
            ELSE /\ tItems' = Append(tItems,
                        StampItem(tScript, ItemPrompt(tIdx), batch_timestamp(tClock', tIdx)))
                 /\ tIdx' = tIdx + 1
                 /\ tPc' = "loop"
    /\ UNCHANGED <<tScript, tN>>
    /\ UNCHANGED notStampVars

\* the loop is over
StampFinish ==
    /\ tPc = "loop"
    /\ tIdx > tN
    /\ tPc' = "done"
    /\ UNCHANGED <<tScript, tN, tIdx, tClock, tBackwards, tItems>>
    /\ UNCHANGED notStampVars

NextStamp ==
    \/ StampPass
    \/ StampFinish

(***************************************************************************)
(* yoga_beach_generator_final.py: the rename after a completed job.        *)
(***************************************************************************)
\* time.time() - f.stat().st_mtime < 60
RecentWindow == 60
\* time.sleep(2) before the glob
RenameSleep == 2

\* how long a job takes from its POST until wait_for_completion returns, in seconds
JobTimes == {20, 70}

\* a file of the output directory: the pose whose job wrote it, its st_mtime and
\* the pose it is named for (0 while it has the name the server gave it)
OutputFile(maker, mtime, name) == [maker |-> maker, mtime |-> mtime, name |-> name]

\* [f for f in output_dir.glob("yoga_beach_*.png") if time.time() - f.stat().st_mtime < 60]:
\* the pattern matches the server's names and the names the renames give
recent_files(files, now) == {f \in files : now - f.mtime < RecentWindow}

\* max(recent_files, key=lambda f: f.stat().st_mtime)
latest_file(recent) == CHOOSE f \in recent : \A g \in recent : g.mtime <= f.mtime

RenameIdle ==
    /\ yN = 0
    /\ yPc = "idle"
    /\ yIdx = 0
    /\ yNow = 0
    /\ yFiles = {}
    /\ yRenamed = <<>>

\* generate_yoga_images at the head of its loop, the output directory holding
\* no file of the last minute
InitRename ==
    /\ yN \in 1..MaxYogaPoses
    /\ yPc = "job"
    /\ yIdx = 1
    /\ yNow = 0
    /\ yFiles = {}
    /\ yRenamed = <<>>

\* queue_prompt and wait_for_completion for pose i: the job is not queued or
\* times out ("failed"), or its id appears in the history ("success"), with or
\* without an image written by the server
YogaJob ==
    /\ yPc = "job"
    /\ yIdx <= yN
    /\ \E d \in JobTimes, outcome \in {"failed", "success"}, wrote \in BOOLEAN :
         /\ (outcome = "failed" => ~wrote)
         /\ yNow' = yNow + d
         /\ yFiles' = (IF wrote THEN yFiles \cup {OutputFile(yIdx, yNow', 0)} ELSE yFiles)
         /\ IF outcome = "success"
            THEN yPc' = "rename" /\ yIdx' = yIdx
            ELSE yPc' = "job" /\ yIdx' = yIdx + 1
    /\ UNCHANGED <<yN, yRenamed>>
    /\ UNCHANGED notRenameVars

\* the rename after a success: sleep, glob, pick the newest recent file, rename
YogaRename ==
    /\ yPc = "rename"
    /\ yNow' = yNow + RenameSleep
    /\ LET recent == recent_files(yFiles, yNow')
       IN  IF recent # {}
           THEN LET f == latest_file(recent)
                IN  /\ yFiles' = (yFiles \ {f}) \cup {OutputFile(f.maker, f.mtime, yIdx)}
                    /\ yRenamed' = Append(yRenamed,
                                          [pose |-> yIdx, maker |-> f.maker, was |-> f.name])
           ELSE UNCHANGED <<yFiles, yRenamed>>
    /\ yIdx' = yIdx + 1
    /\ yPc' = "job"
    /\ UNCHANGED yN
    /\ UNCHANGED notRenameVars

\* the loop is over
YogaFinish ==
    /\ yPc = "job"
    /\ yIdx > yN
    /\ yPc' = "done"
    /\ UNCHANGED <<yN, yIdx, yNow, yFiles, yRenamed>>
    /\ UNCHANGED notRenameVars

NextRename ==
    \/ YogaJob
    \/ YogaRename
    \/ YogaFinish

MoreIdle == RetryIdle /\ CloudIdle /\ SmithIdle /\ StampIdle /\ RenameIdle

ApiIdle == StartIdle /\ FalIdle /\ HfIdle /\ ExpandIdle /\ MoreIdle


vars == <<graphVars, enhVars, runVars, apiVars>>

\* one call of a builder; the other components are idle
InitSpecGraph == InitGraph /\ EnhIdle /\ RunIdle /\ ApiIdle

SpecGraph == InitSpecGraph /\ [][Build]_vars

\* one call of an enhancer; the other components are idle
InitSpecEnh == InitEnh /\ GraphIdle /\ RunIdle /\ ApiIdle

SpecEnh == InitSpecEnh /\ [][Optimize]_vars

\* one run of a script; no other builder or enhancer call than the run's own
InitSpecRun == InitRun /\ GraphIdle /\ EnhIdle /\ ApiIdle

SpecRun == InitSpecRun /\ [][NextRun]_vars

\* the startup of one cloud-API script
InitSpecStart ==
    InitStart /\ GraphIdle /\ EnhIdle /\ RunIdle /\ FalIdle /\ HfIdle /\ ExpandIdle /\ MoreIdle

SpecStart == InitSpecStart /\ [][NextStart]_vars

\* one concurrent batch of the fal.ai generator
InitSpecFal ==
    InitFal /\ StartIdle /\ HfIdle /\ ExpandIdle /\ GraphIdle /\ EnhIdle /\ RunIdle /\ MoreIdle

SpecFal == InitSpecFal /\ [][NextFal]_vars

\* one sequential batch of the Hugging Face generator
InitSpecHf ==
    InitHf /\ StartIdle /\ FalIdle /\ ExpandIdle /\ GraphIdle /\ EnhIdle /\ RunIdle /\ MoreIdle

SpecHf == InitSpecHf /\ [][NextHf]_vars

\* one call of expand_prompt
InitSpecExpand ==
    InitExpand /\ StartIdle /\ FalIdle /\ HfIdle /\ GraphIdle /\ EnhIdle /\ RunIdle /\ MoreIdle

SpecExpand == InitSpecExpand /\ [][Expand]_vars

\* one sequential batch of the 10-image Hugging Face generator
FirstIdle ==
    StartIdle /\ FalIdle /\ HfIdle /\ ExpandIdle /\ GraphIdle /\ EnhIdle /\ RunIdle

InitSpecRetry == InitRetry /\ FirstIdle /\ CloudIdle /\ SmithIdle /\ StampIdle /\ RenameIdle

SpecRetry == InitSpecRetry /\ [][NextRetry]_vars

\* one run of the multi-API generator
InitSpecCloud == InitCloud /\ FirstIdle /\ RetryIdle /\ SmithIdle /\ StampIdle /\ RenameIdle

SpecCloud == InitSpecCloud /\ [][NextCloud]_vars

\* the constructor of PromptSmithClient and one call of enhance_prompt
InitSpecSmith == InitSmith /\ FirstIdle /\ RetryIdle /\ CloudIdle /\ StampIdle /\ RenameIdle

SpecSmith == InitSpecSmith /\ [][NextSmith]_vars

\* the loop of a batch that names its files by the clock
InitSpecStamp == InitStamp /\ FirstIdle /\ RetryIdle /\ CloudIdle /\ SmithIdle /\ RenameIdle

SpecStamp == InitSpecStamp /\ [][NextStamp]_vars

\* the loop of generate_yoga_images with its renames
InitSpecRename == InitRename /\ FirstIdle /\ RetryIdle /\ CloudIdle /\ SmithIdle /\ StampIdle

SpecRename == InitSpecRename /\ [][NextRename]_vars

\* one call of one of the three enhancers
InitSpecEnhance == InitSpecEnh \/ InitSpecExpand

NextEnhance == Optimize \/ Expand

SpecEnhance == InitSpecEnhance /\ [][NextEnhance]_vars

\* one batch run: of a ComfyUI script, of the fal.ai generator or of the
\* Hugging Face generator
InitSpecBatch == InitSpecRun \/ InitSpecFal \/ InitSpecHf

NextBatch == NextRun \/ NextFal \/ NextHf

SpecBatch == InitSpecBatch /\ [][NextBatch]_vars

\* wait_for_completion, a sequential loop, takes its next step as long as it has one
SpecRunFair ==
    InitSpecRun /\ [][NextRun]_vars /\ WF_vars(PollQuery) /\ WF_vars(PollSleep)

(***************************************************************************)
(* Properties of the built graphs.                                         *)
(***************************************************************************)
GraphBuilt == gPc = "built" /\ ~gOut.raised

\* the node ids the inputs of node n reference
Deps(g, n) == {g[n].inputs[k].node : k \in {j \in DOMAIN g[n].inputs : IsRef(g[n].inputs[j])}}

RECURSIVE Closure(_, _, _)
\* the nodes reached from the set s through references, in at most k further steps
Closure(g, s, k) ==
    LET next == s \cup UNION {Deps(g, n) : n \in s \cap DOMAIN g}
    IN  IF k = 0 \/ next = s THEN s ELSE Closure(g, next, k - 1)

\* the nodes node n depends on, directly or not
Ancestors(g, n) == Closure(g, Deps(g, n), Cardinality(DOMAIN g))

OfClass(g, cs) == {n \in DOMAIN g : g[n].class_type \in cs}
TextEncodes(g) == OfClass(g, {"CLIPTextEncode"})
KSamplers(g) == OfClass(g, {"KSampler"})
Samplers(g) == OfClass(g, {"KSampler", "SamplerCustomAdvanced"})
Decodes(g) == OfClass(g, {"VAEDecode"})
SaveImages(g) == OfClass(g, {"SaveImage"})
OutputNodes(g) == OfClass(g, {"SaveImage", "SaveText"})

RefsInto(g, n, k, targets) ==
    /\ k \in DOMAIN g[n].inputs
    /\ IsRef(g[n].inputs[k])
    /\ g[n].inputs[k].node \in targets

NoDangling(g) ==
    \A n \in DOMAIN g : \A k \in DOMAIN g[n].inputs :
        IsRef(g[n].inputs[k]) => g[n].inputs[k].node \in DOMAIN g

\* C1: in every graph a builder returns, every reference [node_id, slot] names
\* a node id that is a key of the same graph.
C1_NoDanglingReferences == GraphBuilt => NoDangling(gOut.graph)

\* a graph with a LoRA loader added by the optional branch has been built
C1_Witness ==
    /\ GraphBuilt
    /\ gBuilder = "flux_handler"
    /\ gArgs.lora # ""
    /\ "13" \in DOMAIN gOut.graph
    /\ gOut.graph["4"].inputs.model = R("13", 0)

\* C8 as stated: every graph that saves an image has a sampler whose positive and
\* negative inputs reference text-encode nodes, its decode node reads the sampler
\* and its save node reads the decode node.
C8_RoutingInEveryImageGraph ==
    (GraphBuilt /\ SaveImages(gOut.graph) # {}) =>
        LET g == gOut.graph IN
        /\ Samplers(g) # {}
        /\ \A s \in Samplers(g) :
              RefsInto(g, s, "positive", TextEncodes(g))
              /\ RefsInto(g, s, "negative", TextEncodes(g))
        /\ \A d \in Decodes(g) : RefsInto(g, d, "samples", Samplers(g))
        /\ \A v \in SaveImages(g) : RefsInto(g, v, "images", Decodes(g))

\* C8 amended: a KSampler's positive and negative inputs reference text-encode
\* nodes; in a graph with a sampler (KSampler or SamplerCustomAdvanced) the
\* sampler depends on a text-encode node and every decode node's samples input
\* references a sampler; a SaveImage node's images input references a decode node.
C8_RoutingWhereSamplerExists ==
    GraphBuilt =>
        LET g == gOut.graph IN
        /\ \A s \in KSamplers(g) :
              RefsInto(g, s, "positive", TextEncodes(g))
              /\ RefsInto(g, s, "negative", TextEncodes(g))
        /\ \A s \in Samplers(g) : Ancestors(g, s) \cap TextEncodes(g) # {}
        /\ (Samplers(g) # {} =>
              \A d \in Decodes(g) : RefsInto(g, d, "samples", Samplers(g)))
        /\ \A v \in SaveImages(g) : RefsInto(g, v, "images", Decodes(g))

\* a KSampler graph built by the branch without a LoRA, routed to the save node
C8_Witness ==
    /\ GraphBuilt
    /\ gBuilder = "advanced_instagram"
    /\ gArgs.lora = ""
    /\ RefsInto(gOut.graph, "5", "negative", TextEncodes(gOut.graph))
    /\ RefsInto(gOut.graph, "8", "samples", KSamplers(gOut.graph))
    /\ RefsInto(gOut.graph, "10", "images", Decodes(gOut.graph))

Acyclic(g) == \A n \in DOMAIN g : n \notin Ancestors(g, n)

\* the output nodes no other node references
TerminalOutputs(g) ==
    {n \in OutputNodes(g) : \A m \in DOMAIN g : n \notin Deps(g, m)}

\* C9: every constructed graph is acyclic over its references and has a
\* terminal output/save node that no other node references.
C9_AcyclicWithTerminalOutput ==
    GraphBuilt => Acyclic(gOut.graph) /\ TerminalOutputs(gOut.graph) # {}

(***************************************************************************)
(* The enhancer fallback.                                                  *)
(***************************************************************************)
\* the text-generation endpoint was unreachable or answered another status than 200
EnhUnavailable ==
    /\ ePc = "returned"
    /\ \/ eEnv.probe # "ok"
       \/ eEnv.net = "neterr"
       \/ eEnv.status # 200

\* the fixed negative string of each enhancer's fallback
FallbackNegative(o) ==
    IF o = "batch" THEN BatchFallbackNegative ELSE InstagramFallbackNegative

\* the keywords each enhancer's fallback holds
FallbackKeywords(o, lora_triggers) ==
    IF o = "batch" THEN BatchFallbackKeywords ELSE EnhancementWords(lora_triggers)

\* the number of entries of the list l that equal w
Count(l, w) == Cardinality({i \in 1..Len(l) : l[i] = w})

\* sel holds k entries of l taken at k different positions
DrawnFrom(sel, l, k) ==
    /\ Len(sel) = k
    /\ \A i \in 1..Len(sel) : Count(sel, sel[i]) <= Count(l, sel[i])

\* C10 as stated: when the text-generation endpoint is unreachable or answers
\* non-200 the enhancer falls back to the fixed negative string and to
\* base + ", " + all the fallback keywords joined by ", ", with at most one
\* POST (no retry) and without raising.
C10_FallbackAppendsTheKeywords ==
    EnhUnavailable =>
        /\ eOut.path = "fallback"
        /\ eOut.posts <= 1
        /\ eOut.data.negative_prompt = FallbackNegative(eOpt)
        /\ eOut.data.optimized_prompt =
               eBase \o ", " \o Join(FallbackKeywords(eOpt, eTriggers))

\* C10 amended: as above, but the keywords appended are the whole fixed list
\* for OllamaPromptOptimizer and five entries drawn at different positions of
\* the keyword list for OllamaOptimizer.
C10_FallbackAppendsSelectedKeywords ==
    EnhUnavailable =>
        /\ eOut.path = "fallback"
        /\ eOut.posts <= 1
        /\ eOut.data.negative_prompt = FallbackNegative(eOpt)
        /\ eOpt = "batch" =>
               eOut.data.optimized_prompt = eBase \o ", " \o Join(BatchFallbackKeywords)
        /\ eOpt = "instagram" =>
               /\ DrawnFrom(eOut.sel, EnhancementWords(eTriggers), 5)
               /\ eOut.data.optimized_prompt = eBase \o ", " \o Join(eOut.sel)

\* both enhancers have fallen back, once because the server could not be reached
\* and once because it answered 500
C10_Witness ==
    /\ EnhUnavailable
    /\ eOut.path = "fallback"
    /\ \/ eOpt = "instagram" /\ eEnv.probe = "ok" /\ eEnv.net = "neterr" /\ Len(eOut.sel) = 5
       \/ eOpt = "batch" /\ eEnv.net = "ok" /\ eEnv.status = 500

(***************************************************************************)
(* Submitting and polling.                                                 *)
(***************************************************************************)
\* wait_for_completion is running
Polling == pc \in {"poll_query", "poll_sleep"}

\* C2: a polling loop for a job id that never appears in the history terminates
\* and reports "not completed" once the timeout has elapsed: no
\* wait_for_completion loops forever, so every poll that has started returns.
C2_PollingTerminates == Polling ~> (pc = "polled")

\* the script is just past a submit function that sent its POST
SubmitReturned ==
    /\ script \in FunctionScripts
    /\ lastResp # NoResp
    /\ pc = "posted" \/ (pc = "raised" /\ raisedBy = "submit")

\* the job id a submit result carries
ReturnedId(res) == IF res.kind \in {"id", "body"} THEN res.id ELSE NoId

\* C3: every submit function returns the job id of the response body when the
\* POST is answered 200, and returns None without raising when the POST is
\* answered with another status or fails at the network level.
C3_SubmitReturnsIdOrNone ==
    SubmitReturned =>
        /\ subResult.kind # "raised"
        /\ (lastResp.net = "ok" /\ lastResp.status = 200 /\ lastResp.body = "json")
               => ReturnedId(subResult) = lastResp.id
        /\ (lastResp.net # "ok" \/ lastResp.status # 200) => subResult.kind = "none"

\* the loop of the script has been entered
Started == script \notin ProbeScripts \/ probed

\* C4: in every batch loop a failure of one prompt (submit answered non-200,
\* submit failing at the network level, an unexpected enhancer body, a poll
\* timeout) does not abort the batch: no exception leaves the loop and the
\* loop ends only when every prompt has been handled.
C4_BatchNeverAborts ==
    script \in Scripts \ SingleScripts =>
        /\ pc # "raised"
        /\ (pc = "done" /\ Started) => Len(outcomes) = count

\* the last prompt handled was polled
LastPolled ==
    /\ pc \in {"loop", "done"}
    /\ Len(outcomes) > 0
    /\ outcomes[Len(outcomes)] \in {"completed", "timed_out"}

\* C5: wait_for_completion returns True iff a history query issued before the
\* timeout was answered 200 with the job id as a key; when the id first appears
\* on the k-th query it returns True after exactly k queries, and the prompt then
\* counts as completed with the job id the submit step returned.
C5_TrueIffFoundAtKthQuery ==
    /\ (pc = "poll_query" /\ script \in TimedScripts) => elapsed < timeout
    /\ pc = "polled" =>
           /\ pollResult <=> firstFoundAt > 0
           /\ pollResult => queries = firstFoundAt
           /\ jobId = subResult.id /\ jobId = lastResp.id
    /\ LastPolled => (outcomes[Len(outcomes)] = "completed" <=> pollResult)
    /\ (LastPolled /\ script = "yoga") =>
           genlog[Len(genlog)] =
               LogEntry(Len(outcomes), jobId, IF pollResult THEN "success" ELSE "timeout")

\* the job id appeared on the third query of a timed poller, which returned True
C5_Witness ==
    /\ pc = "polled"
    /\ script = "instagram_lora"
    /\ pollResult
    /\ firstFoundAt = 3
    /\ queries = 3

\* C6: a network error of a history query is swallowed: the poller neither
\* raises nor returns on it but sleeps and goes on, and after a sleep it
\* queries again unless the timeout has elapsed, in which case it returns False.
C6_NetworkErrorsSwallowed ==
    [][/\ (pc = "poll_query" /\ lastNet' = "neterr") =>
              (pc' = "poll_sleep" /\ raisedBy' = "none")
       /\ pc = "poll_sleep" =>
              \/ pc' = "poll_query"
              \/ pc' = "polled" /\ ~pollResult' /\ script \in TimedScripts
                 /\ elapsed' >= timeout]_vars

\* a poller is about to query again after a query that failed at the network level
C6_Witness ==
    /\ pc = "poll_query"
    /\ lastNet = "neterr"
    /\ queries >= 1
    /\ script \in PollScripts

\* the number of prompts whose poll found the job
Completed == Cardinality({i \in 1..Len(outcomes) : outcomes[i] = "completed"})

\* the number of images the script reports as successfully generated
ReportedSuccess ==
    CASE script = "instagram_lora" -> Len(results)
      [] OTHER -> successful

\* C7: a job whose poll ran out of its time budget is treated as failed: it is
\* never among the images the script counts or reports as generated.
C7_TimedOutNeverCountedAsSuccess ==
    (script \in PollScripts /\ pc = "done") => ReportedSuccess = Completed

(***************************************************************************)
(* The enhancer's result on a 200 answer.                                  *)
(***************************************************************************)
\* the text-generation server answered the POST with status 200
EnhAnswered200 ==
    /\ ePc = "returned"
    /\ eEnv.probe = "ok"
    /\ eEnv.net = "ok"
    /\ eEnv.status = 200

\* the keys the consumers of the optimizer o read: generate_batch and
\* create_optimized_workflow for OllamaPromptOptimizer, the two members of the
\* tuple for OllamaOptimizer
ConsumedKeys(o) == IF o = "batch" THEN DataKeys ELSE {"optimized_prompt", "negative_prompt"}

ConsumedSettings(o) == IF o = "batch" THEN SettingsKeys ELSE {}

\* C11: whatever text the server returns in a 200 response, the enhancer
\* returns (does not raise) a result that carries every field its consumers
\* read: optimized prompt, negative prompt, style notes and the recommended
\* settings with steps, cfg and sampler.
C11_ResultCarriesEveryField ==
    EnhAnswered200 =>
        /\ eOut.path \in {"remote", "fallback"}
        /\ ConsumedKeys(eOpt) \subseteq eOut.data.has
        /\ ConsumedSettings(eOpt) \subseteq eOut.data.shas

(***************************************************************************)
(* Credentials at startup.                                                 *)
(***************************************************************************)
\* the credentials the script requires that the environment does not give
MissingCredentials == {n \in RequiredOf(sScript) : ~ConfigValue(sEnv, n)}

\* C12: a script exits at startup, before any network call, whenever a
\* credential it requires is absent (FAL_API for the fal.ai generators; FAL_API,
\* REPLICATE_API and HF_TOKEN for the multi-API generator; HF_TOKEN for the
\* Hugging Face generators), and its message lists the missing keys.
C12_ExitsWhenCredentialMissing ==
    (sPc # "idle" /\ sPc # "start" /\ MissingCredentials # {}) =>
        /\ sPc = "exited"
        /\ sNet = 0
        /\ MissingCredentials \subseteq sPrinted


(***************************************************************************)
(* Properties of the concurrent fal.ai batch.                              *)
(***************************************************************************)
\* the tasks inside the "async with semaphore" section
FalInside == {i \in 1..fN : fTask[i].pc \in {"request", "download"}}

FalWaiting == {i \in 1..fN : fTask[i].pc = "waiting"}

\* C13: at every moment at most 3 generate_single_image tasks are inside the
\* semaphore-guarded section (issuing the request or downloading the image),
\* whatever the interleaving of the tasks; the permits left are the 3 minus
\* the tasks inside.
C13_AtMostThreeInside ==
    /\ Cardinality(FalInside) <= FalConcurrency
    /\ fPermits = FalConcurrency - Cardinality(FalInside)

\* three tasks are inside, one of them downloading, and another task waits
C13_Witness ==
    /\ Cardinality(FalInside) = FalConcurrency
    /\ FalWaiting # {}
    /\ \E i \in FalInside : fTask[i].pc = "download"


\* the records of the aggregated results that carry the pose index k
RecordsOf(k) == {r \in 1..Len(fResults) : fResults[r].index = k}

\* C14: when the concurrent batch has finished, the aggregated results hold
\* exactly one record for each pose index 1..N and no other record, whatever
\* order the tasks completed in; the record carries the status its task
\* returned.
C14_OneRecordPerPose ==
    fMain = "done" =>
        /\ Len(fResults) = fN
        /\ \A k \in 1..fN :
              /\ Cardinality(RecordsOf(k)) = 1
              /\ \A r \in RecordsOf(k) : fResults[r].status = fTask[k].status
        /\ \A r \in 1..Len(fResults) : fResults[r].index \in 1..fN

\* a batch of several poses has finished, a later task having returned before
\* an earlier one, with successes and failures among the records
C14_Witness ==
    /\ fMain = "done"
    /\ fN >= 3
    /\ fOutOfOrder
    /\ WithStatus(fResults, "success") # {}
    /\ WithStatus(fResults, "failed") # {}


(***************************************************************************)
(* Properties of the counts of a batch run.                                *)
(***************************************************************************)
\* C15: the reported counts are consistent. Inside the sequential loops of
\* yoga_beach_generator_final.py and hf_yoga_generator_50.py, after each
\* iteration successful + failed equals the number of poses handled so far;
\* at the end of the run of these and of the fal.ai generator, successful +
\* failed equals the number of poses requested (also when yoga's probe fails
\* and it returns 0 successful, all failed).
C15_CountsConsistent ==
    /\ (script = "yoga" /\ pc = "loop") => successful + failed = idx - 1
    /\ (script = "yoga" /\ pc = "done") => successful + failed = count
    /\ hPc = "loop" =>
          /\ hSuccessful + hFailed = hIdx - 1
          /\ hSuccessful = Cardinality(WithStatus(hResults, "success"))
          /\ Len(hResults) = hIdx - 1
    /\ hPc = "done" => hSuccessful + hFailed = hN
    /\ fMain = "done" => fSuccessful + fFailed = fN

\* a yoga run has ended after its loop with a success and a failure counted
C15_Witness ==
    /\ script = "yoga"
    /\ pc = "done"
    /\ probed
    /\ successful >= 1
    /\ failed >= 1

\* the other two generators have ended with a success and a failure counted
C15_WitnessHf == hPc = "done" /\ hSuccessful >= 1 /\ hFailed >= 1

C15_WitnessFal == fMain = "done" /\ fSuccessful >= 1 /\ fFailed >= 1


(***************************************************************************)
(* Properties of the submit step.                                          *)
(***************************************************************************)
\* C16: a submit function issues at most one POST per call and keeps no state
\* between calls. Every step issues at most one POST and only a call of the
\* submit function issues one; every call issues its own POST, whatever the
\* earlier calls did (ComfyUIManager.queue_prompt issues none when the server
\* is not running); what the call returns is determined by the answer to its
\* own POST, never by an earlier answer.
C16_OnePostPerCallNoState ==
    [][/\ posts' <= posts + 1
       /\ posts' # posts => pc = "post"
       /\ (pc = "post" /\ pc' # "post") =>
             /\ (script # "flux_handler" \/ probed') => posts' = posts + 1
             /\ subResult' = SubmitOf(script, IF probed' THEN "ok" ELSE "neterr", lastResp')
             /\ (script = "flux_handler" /\ ~probed') =>
                   posts' = posts /\ subResult' = SubResult("none", NoId)]_vars

\* the second call of instagram_lora's queue_prompt has issued the second POST
\* and returned the id of its own answer, the first call having returned the
\* other id
C16_Witness ==
    /\ script = "instagram_lora"
    /\ pc = "posted"
    /\ posts = 2
    /\ idx = 2
    /\ subResult = SubResult("id", "c3d4")
    /\ Len(results) >= 1
    /\ results[1] = "a1b2"


\* C17: no script POSTs a graph to the submit endpoint unless a preceding GET of
\* the system-status endpoint returned HTTP 200 in the same run.
C17_NoPostWithoutProbe == posts > 0 => probed

\* the scripts that have posted a graph without a probe answered 200
C17_PostedUnprobed == posts > 0 /\ ~probed /\ script \in {"generate_images", "advanced_instagram"}


(***************************************************************************)
(* Determinism of the fallback enhancers.                                  *)
(***************************************************************************)
\* the call of OllamaPromptOptimizer or OllamaOptimizer has returned its fallback
EnhFellBack == ePc = "returned" /\ eOut.path = "fallback"

\* the call of expand_prompt has returned expand_prompt_fallback's text
ExpandFellBack == xPc = "returned" /\ xOut.path = "fallback"

\* the environments of a second run of the enhancer o that has the random
\* generator in the same state and falls back as well
SecondRuns(o, base, triggers, rng) ==
    {e \in EnhEnvs :
        /\ e.rng = rng
        /\ (o = "batch" => e.probe = "ok")
        /\ optimize_prompt(o, base, triggers, e).path = "fallback"}

SecondExpandRuns(base, rng) ==
    {e \in ExpandEnvsIn({rng}) : expand_prompt(base, e).path = "fallback"}

\* the fields of the result
FieldsOf(d) == <<d.has, d.shas>>

SameCallerArguments(a, a2) ==
    \A k \in DOMAIN a : k \notin {"now", "rnd"} => a2[k] = a[k]

\* the calls of the builder b with the caller's arguments of a
SameCalls(b, a) == {a2 \in ArgsOf(b) : SameCallerArguments(a, a2)}

\* C19: a graph builder is a pure function of its arguments: every call with
\* the same prompt, negative prompt and numeric parameters returns the same
\* graph, and the call changes no state outside the returned graph.
C19_BuilderIsPure ==
    gPc = "built" =>
        /\ \A a2 \in SameCalls(gBuilder, gArgs) : BuildGraph(gBuilder, a2) = gOut
        /\ EnhIdle /\ RunIdle /\ ApiIdle

\* a builder named by the claim, called with an explicit seed, has returned a
\* graph that the same call one second later does not return
C19_ClockInGraph ==
    /\ gPc = "built"
    /\ gBuilder \in {"flux_handler", "instagram", "advanced_instagram"}
    /\ ~gOut.raised
    /\ gArgs.seed = 42
    /\ \E a2 \in SameCalls(gBuilder, gArgs) : BuildGraph(gBuilder, a2) # gOut


(***************************************************************************)
(* Local failures of the builders.                                         *)
(***************************************************************************)
\* C20: a graph builder never fails locally: for every value of its parameters
\* (an unknown sampler name, an unknown model variant, enhancer settings with
\* unexpected content) the call returns a graph.
C20_BuilderNeverFails == gPc = "built" => ~gOut.raised

\* a builder has raised: FluxHandler.create_flux_workflow on an unknown model
\* variant, or create_optimized_workflow on enhancer data without a sampler
C20_BuilderRaised ==
    /\ gPc = "built"
    /\ gOut.raised
    /\ \/ gBuilder = "flux_handler" /\ gArgs.variant = "no_such_variant"
       \/ gBuilder = "advanced_batch" /\ "sampler" \notin gArgs.data.shas

\* an unknown sampler name alone does not make the builder fail
C20_UnknownSamplerBuilt ==
    /\ gPc = "built"
    /\ ~gOut.raised
    /\ gBuilder = "flux_handler"
    /\ gArgs.sampler = "no_such_sampler"


(***************************************************************************)
(* Retries of the Hugging Face generators.                                 *)
(***************************************************************************)
\* C21: in the 10-image Hugging Face generator a 503 "model loading" answer is
\* retried once: generate_single_image_hf issues at most two POSTs for one
\* pose and then returns a record.
C21_AtMostTwoPosts ==
    /\ rPosts <= 2
    /\ rPc = "post" => rPosts < 2

\* the service has answered 503 "loading" to the first two POSTs for a pose and
\* generate_single_image_hf is about to POST a third time
C21_ThirdPost == rPc = "post" /\ rPosts = 2 /\ rDepth = 2


\* the records generate_single_image_hf of the 50-image generator has returned
HfReturnedRecords ==
    {hResults[k] : k \in 1..Len(hResults)} \cup (IF hPc = "append" THEN {hResult} ELSE {})

\* C22: in the 50-image Hugging Face generator generate_single_image_hf issues
\* at most 3 POSTs for one pose and, for every sequence of responses and
\* exceptions, returns a record whose status is "success" or "failed" (the loop
\* never ends without a return, so never None); a success record's attempt
\* field equals the number of POSTs issued for that pose.
C22_AtMostThreePostsThenRecord ==
    /\ hPosts <= 3
    /\ hPc = "post" => hAttempt < HfAttempts /\ hPosts = hAttempt
    /\ \A r \in HfReturnedRecords : r.status \in {"success", "failed"}
    /\ (hPc = "append" /\ hResult.status = "success") => hResult.attempt = hPosts

\* the third POST for a pose was answered 200 after a 503 "loading" and an
\* exception: the record says attempt 3
C22_Witness ==
    /\ hPc = "append"
    /\ hPosts = 3
    /\ hResult.status = "success"
    /\ hResult.attempt = 3


(***************************************************************************)
(* Properties of the multi-API generator.                                  *)
(***************************************************************************)
CloudDispatched == cPc \notin {"idle", "dispatch"}

FalPoses == {i \in DOMAIN cPoses : cPoses[i] = "fal"}

\* C23: every pose is dispatched to the generator matching its api field, the
\* fal.ai tasks are collected by asyncio.gather and the replicate and
\* huggingface futures by as_completed, and each pose is counted exactly once:
\* generate_all_images gets past both collections and then
\* completed + failed = len(YOGA_POSES).
C23_EachPoseCountedOnce ==
    /\ CloudDispatched =>
          /\ \A i \in DOMAIN cPoses : cTasks[i] = task_of(cPoses[i])
          /\ async_tasks(cTasks) = FalPoses
          /\ sync_tasks(cTasks) = DOMAIN cPoses \ FalPoses
    /\ cRaised # "TypeError"
    /\ cPc \in {"report", "done"} => cCompleted + cFailed = Len(cPoses)

\* with a replicate pose among the poses the executor future is handed to
\* asyncio.gather, which raises before any result is counted
C23_GatherRaised ==
    /\ cPc = "raised"
    /\ cRaised = "TypeError"
    /\ \E i \in DOMAIN cPoses : cPoses[i] = "fal"
    /\ \E i \in DOMAIN cPoses : cPoses[i] = "replicate" /\ i \in async_tasks(cTasks)
    /\ cCompleted + cFailed = 0

\* C24: generate_all_images writes its log and prints the summary and the
\* per-API success breakdown for every outcome of the batch, including the one
\* where no image succeeds and the one where fal.ai images succeed, without
\* raising.
C24_AlwaysReports ==
    /\ cPc # "raised"
    /\ cRaised = "none"
    /\ cPc = "done" => cLogged

\* no image has succeeded and the summary's average speed has divided by zero
C24_NoSuccessRaised ==
    cPc = "raised" /\ cRaised = "ZeroDivisionError" /\ cCompleted = 0 /\ cLogged

\* a fal.ai image has succeeded and the breakdown has raised on its api label
C24_FalSuccessRaised ==
    cPc = "raised" /\ cRaised = "KeyError" /\ cCompleted > 0 /\ cLogged


(***************************************************************************)
(* The sequential submit-and-poll batches.                                 *)
(***************************************************************************)
\* the ways the handling of one item of a polling batch ends
SettledOutcomes == {"completed", "timed_out", "not_queued"}

\* C25: in the sequential submit-and-poll batches at most one job is
\* outstanding: when the POST for item idx is sent or its job is polled, every
\* earlier item has ended, in list order, by a poll that returned (completed or
\* timed out) or by a failed submission, and at most one POST per item has been
\* sent; a poll runs only for the job id the last submission returned.
C25_OneJobAtATime ==
    script \in PollScripts =>
        /\ Len(outcomes) = idx - 1
        /\ \A k \in DOMAIN outcomes : outcomes[k] \in SettledOutcomes
        /\ posts <= idx
        /\ pc \in {"loop", "post"} => posts <= idx - 1
        /\ Polling \/ pc = "polled" => jobId = subResult.id /\ jobId # NoId
        /\ pc \in {"loop", "post"} /\ idx > 1 =>
              (outcomes[idx - 1] = "not_queued" <=> subResult.id = NoId)

\* the second item is about to be POSTed after the poll of the first returned
C25_Witness ==
    /\ script \in PollScripts
    /\ pc = "post"
    /\ idx = 2
    /\ posts = 1
    /\ outcomes = <<"completed">>


(***************************************************************************)
(* The wiring of the LoRA loader.                                          *)
(***************************************************************************)
NodesOfClass(g, cs) == {n \in DOMAIN g : g[n].class_type \in cs}
LoraNodes(g) == NodesOfClass(g, {"LoraLoader"})
ModelLoaders(g) == NodesOfClass(g, {"UNETLoader", "CheckpointLoaderSimple"})
ClipLoaders(g) == NodesOfClass(g, {"DualCLIPLoader", "CheckpointLoaderSimple"})
SamplerNodes(g) == NodesOfClass(g, {"KSampler"})
TextEncodeNodes(g) == NodesOfClass(g, {"CLIPTextEncode"})

\* the sampler and the text encoders go through the LoRA loader l
WiredThroughLora(g) ==
    \E l \in LoraNodes(g) :
        /\ LoraNodes(g) = {l}
        /\ IsRef(g[l].inputs.model) /\ g[l].inputs.model.node \in ModelLoaders(g)
        /\ IsRef(g[l].inputs.clip) /\ g[l].inputs.clip.node \in ClipLoaders(g)
        /\ SamplerNodes(g) # {}
        /\ \A k \in SamplerNodes(g) : g[k].inputs.model = R(l, 0)
        /\ Cardinality(TextEncodeNodes(g)) = 2
        /\ \A t \in TextEncodeNodes(g) : g[t].inputs.clip = R(l, 1)

\* the sampler and the text encoders read the loaders
WiredDirectly(g) ==
    /\ LoraNodes(g) = {}
    /\ SamplerNodes(g) # {}
    /\ \A k \in SamplerNodes(g) :
          IsRef(g[k].inputs.model) /\ g[k].inputs.model.node \in ModelLoaders(g)
    /\ Cardinality(TextEncodeNodes(g)) = 2
    /\ \A t \in TextEncodeNodes(g) :
          IsRef(g[t].inputs.clip) /\ g[t].inputs.clip.node \in ClipLoaders(g)

\* the graph of the builder in bs has the wiring its LoRA argument asks for
LoraWiringHolds(bs) ==
    gPc = "built" /\ gBuilder \in bs /\ ~gOut.raised =>
        IF gArgs.lora # "" THEN WiredThroughLora(gOut.graph)
        ELSE WiredDirectly(gOut.graph)

\* C26: a builder that is given a LoRA file returns a graph with one LoRA loader
\* fed by the model loader and the CLIP loader, the sampler's model input on the
\* LoRA loader's output 0 and both text encoders' clip inputs on its output 1;
\* without a LoRA file the graph has no LoRA loader and the sampler and the text
\* encoders read the loaders.
C26_LoraWiring == LoraWiringHolds(LoraBuilders)

\* the three builders with a LoRA argument other than flux_lora_generator_fixed
LoraWiringOfTheOthers == LoraWiringHolds(LoraBuilders \ {"flux_lora"})

\* flux_lora_generator_fixed: a LoRA loader is in the graph and a text encoder
\* reads the CLIP loader
C26_TextEncoderBypassesLora ==
    /\ gPc = "built"
    /\ gBuilder = "flux_lora"
    /\ gArgs.lora # ""
    /\ LoraNodes(gOut.graph) = {"12"}
    /\ gOut.graph["3"].inputs.model = R("12", 0)
    /\ \A t \in TextEncodeNodes(gOut.graph) : gOut.graph[t].inputs.clip = R("11", 0)


(***************************************************************************)
(* The order of the sources of expand_prompt.                              *)
(***************************************************************************)
\* C27: expand_prompt returns a non-empty string and tries its sources in a
\* fixed order: the Ollama API on the first endpoint of ENDPOINTS that passes the
\* probe, then the llama.cpp API on that endpoint when Ollama failed or gave
\* empty text, and the local fallback only when no endpoint passes the probe or
\* both calls gave nothing.
C27_SourcesInOrder ==
    xPc = "returned" =>
        LET endpoint == find_working_endpoint(xEnv.reach)
            ollama == expand_prompt_remote(xEnv.ollama)
            llamacpp == expand_prompt_remote(xEnv.llamacpp)
        IN  /\ xOut.text # "" /\ xOut.text # NoText
            /\ endpoint = NoEndpoint => \A i \in 1..Len(Endpoints) : ~xEnv.reach[i]
            /\ endpoint # NoEndpoint =>
                  xEnv.reach[endpoint] /\ \A j \in 1..(endpoint - 1) : ~xEnv.reach[j]
            /\ xOut.path \in {"ollama", "llamacpp", "fallback"}
            /\ xOut.path = "ollama" <=> endpoint # NoEndpoint /\ Truthy(ollama)
            /\ xOut.path = "ollama" => xOut.text = ollama /\ xOut.posts = 1
            /\ xOut.path = "llamacpp" <=>
                  endpoint # NoEndpoint /\ ~Truthy(ollama) /\ Truthy(llamacpp)
            /\ xOut.path = "llamacpp" => xOut.text = llamacpp /\ xOut.posts = 2
            /\ xOut.path = "fallback" <=>
                  endpoint = NoEndpoint \/ (~Truthy(ollama) /\ ~Truthy(llamacpp))
            /\ xOut.path = "fallback" =>
                  /\ xOut.posts = (IF endpoint = NoEndpoint THEN 0 ELSE 2)
                  /\ \E k \in 1..Len(ExpandStyles) :
                        xOut.text = xBase \o ", " \o ExpandStyles[k]

\* the second endpoint is the first that answers, Ollama gave nothing and the
\* llama.cpp API gave the text
C27_Witness ==
    /\ xPc = "returned"
    /\ ~xEnv.reach[1] /\ xEnv.reach[2] /\ xEnv.reach[3]
    /\ find_working_endpoint(xEnv.reach) = 2
    /\ ~Truthy(expand_prompt_remote(xEnv.ollama))
    /\ xOut.path = "llamacpp"
    /\ xOut.text = "a red apple, soft light"


(***************************************************************************)
(* The endpoint search of PromptSmithClient.                               *)
(***************************************************************************)
\* the URL at position i is reachable: /health answers 200, or /health is
\* unreachable and the plain request is answered
UrlReachable(i) ==
    \/ pEnv[i].health = "200"
    \/ pEnv[i].health = "unreachable" /\ pEnv[i].plain

\* C28: after find_active_endpoint active_url is None or the first URL of
\* base_urls, in list order, that is reachable; with active_url None
\* enhance_prompt returns None and issues no network request.
C28_FirstReachableOrNone ==
    /\ pPc \in {"ready", "returned"} =>
          /\ pActive = 0 => \A i \in DOMAIN pEnv : ~UrlReachable(i)
          /\ pActive # 0 =>
                /\ pActive \in DOMAIN pEnv
                /\ UrlReachable(pActive)
                /\ \A j \in 1..(pActive - 1) : ~UrlReachable(j)
    /\ pPc = "returned" /\ pActive = 0 => pOut = "None" /\ pPosts = 0
    /\ pPc = "returned" /\ pActive # 0 => pPosts = 1

\* the first URL answers /health with an error status, the second answers only
\* the plain request and becomes the active one
C28_Witness ==
    /\ pPc = "ready"
    /\ Len(pEnv) = 3
    /\ pEnv[1].health = "status"
    /\ pEnv[2].health = "unreachable" /\ pEnv[2].plain
    /\ UrlReachable(3)
    /\ pActive = 2

\* no URL is reachable and enhance_prompt has returned None
C28_WitnessNone ==
    /\ pPc = "returned"
    /\ pActive = 0
    /\ pGets > 0
    /\ pPosts = 0
    /\ pOut = "None"


(***************************************************************************)
(* The time stamps of one batch.                                           *)
(***************************************************************************)
\* C29: within one batch run, provided the clock never goes backwards, the time
\* stamp int(time.time()) + i of the i-th prompt is strictly increasing in i, so
\* no two prompts of the batch share a workflow file name, an optimization file
\* name or a filename prefix.
C29_StampsIncrease ==
    ~tBackwards =>
        \A i, j \in DOMAIN tItems :
            i < j =>
                /\ tItems[i].timestamp < tItems[j].timestamp
                /\ tItems[i].workflow_file # tItems[j].workflow_file
                /\ tItems[i].optimization_file = NoFile
                      \/ tItems[i].optimization_file # tItems[j].optimization_file
                /\ tItems[i].prefix # tItems[j].prefix

\* three prompts handled within the same second of a clock that did not go back
C29_Witness ==
    /\ tPc = "done"
    /\ ~tBackwards
    /\ Len(tItems) = 3
    /\ tClock = 1700000000
    /\ tItems[3].timestamp = tItems[1].timestamp + 2
    /\ tItems[1].optimization_file # NoFile

\* the clock went back one second between two prompts and they share their names
StampsCollideAfterStepBack ==
    /\ tBackwards
    /\ \E i, j \in DOMAIN tItems :
          i < j /\ tItems[i].workflow_file = tItems[j].workflow_file


(***************************************************************************)
(* The renames of generate_yoga_images.                                    *)
(***************************************************************************)
\* C30: an output file that was renamed for pose i is never renamed again for a
\* later pose: each rename moves the file written by the job that has just
\* completed, so every renamed file carries the name of the pose that made it.
C30_RenamedOnceForItsPose ==
    /\ \A k \in DOMAIN yRenamed : yRenamed[k].was = 0 /\ yRenamed[k].maker = yRenamed[k].pose
    /\ \A f \in yFiles : f.name # 0 => f.name = f.maker

\* the job of pose 2 completed without writing an image within the minute after
\* the image of pose 1, and the file renamed for pose 1 now has the name of pose 2
C30_RenamedAgain ==
    /\ Len(yRenamed) = 2
    /\ yRenamed[1] = [pose |-> 1, maker |-> 1, was |-> 0]
    /\ yRenamed[2] = [pose |-> 2, maker |-> 1, was |-> 1]
    /\ \E f \in yFiles : f.maker = 1 /\ f.name = 2

====
